---- MODULE Spec2Model ----
\* Call signaling of the 1:1 coordinator (VideoCall) and of the group
\* coordinator (GroupVideoCall) over the call_signals table.
\*
\* mode = "direct": user "A" opens the outgoing VideoCall of a two-member
\*   conversation, user "B" gets the incoming VideoCall that ChatWindow mounts.
\* mode = "group":  user "A" runs one GroupVideoCall; the other members
\*   ("B", "C", "D") are the environment, which inserts group signals.
\* mode = "party":  as "group" with "A" the caller, and every other member
\*   following the protocol: accept the call-request, answer the offer, and
\*   leave with call-ended once its link is negotiated.
\* mode = "guest":  as "party" with "B" the caller and "A" one of the members
\*   it rings; the other members run the same component and accept.
\*
\* Every async function is cut at its awaits: the part up to an await is one
\* action, the continuation is a task in `tasks` that a later action resumes.
EXTENDS Integers, Sequences, FiniteSets, Bags, TLC

VARIABLES
    mode,              \* "direct" | "group" | "party" | "guest"
    isIncoming,        \* prop isIncoming of each coordinator
    show,              \* the modal is open: prop show (outgoing), mounted (incoming)
    sessions,          \* how many times each coordinator was opened
    callerId,          \* prop callerId (incomingCall.callerId), "none" if absent
    callStatus,        \* useState callStatus
    remoteUserId,      \* useState remoteUserId (1:1)
    subRemote,         \* remoteUserId seen by the closures of the signal subscription
    localStreamRef,    \* localStreamRef.current: index into stops, 0 = null
    stops,             \* per coordinator, per acquired stream: times its tracks were stopped
    pcs,               \* per coordinator: every RTCPeerConnection it created
    peerConnectionRef, \* peerConnectionRef.current (1:1): index into pcs, 0 = null
    tasks,             \* bag of suspended async continuations
    hideTimers,        \* pending setTimeout(() => onHide(), 1000) per coordinator
    bus,               \* bag of call_signals rows inserted and not yet delivered
    hist,              \* per coordinator: set of things that have happened (history)
    clicks,            \* per coordinator: user clicks on reject / end / dismiss so far
    unmounted,         \* group: the component was unmounted (its cleanup effect ran)
    peerConnectionsRef,\* group: peerConnectionsRef.current, a Map in insertion order
    callStartTimeRef,  \* group: callStartTimeRef.current is set
    participants,      \* group: useState participants (ids)
    chatLog,           \* group: rows this coordinator inserted into messages
    envSent,           \* group: signals received, candidates and failures so far
    isVideoEnabled,    \* useState isVideoEnabled
    isAudioEnabled,    \* useState isAudioEnabled
    tracks,            \* per coordinator: the video and the audio track of
                       \* localStreamRef.current, "on" / "off" (its enabled flag)
                       \* or "none" (the stream has no such track)
    toggles,           \* per coordinator: clicks on the camera / microphone buttons
    elapsed,           \* group: milliseconds since callStartTimeRef.current was set
    logText            \* group: content of the last row inserted into messages

vars == <<mode, isIncoming, show, sessions, callerId, callStatus, remoteUserId,
          subRemote, localStreamRef, stops, pcs, peerConnectionRef, tasks,
          hideTimers, bus, hist, clicks, unmounted, peerConnectionsRef,
          callStartTimeRef, participants, chatLog, envSent, isVideoEnabled,
          isAudioEnabled, tracks, toggles, elapsed, logText>>

\* state only the group coordinator uses / only the 1:1 coordinator uses
tvars == <<elapsed, logText>>
gvars == <<unmounted, peerConnectionsRef, callStartTimeRef, participants,
           chatLog, envSent, tvars>>
dvars == <<remoteUserId, subRemote, peerConnectionRef>>
\* state of the camera / microphone buttons
mvars == <<isVideoEnabled, isAudioEnabled, toggles>>

\* ---------------------------------------------------------------- bounds
MaxSessions == 1   \* times the outgoing modal is opened
MaxClicks   == 1   \* clicks on reject, end or modal dismissal per coordinator
MaxIce      == 1   \* ICE candidates the peer connections emit in all
MaxFailures == 1   \* peer connections that go 'disconnected'/'failed' in all
MaxToggles  == 2   \* clicks on the camera / microphone buttons per coordinator
MaxEnv      == 2   \* group: signals of the other members, ICE candidates and
                   \* transport failures in all
MaxHangups  == 2   \* uses of the end button (or Escape) per coordinator in the
                   \* runs of SpecHangups

\* ---------------------------------------------------------------- values
\* A coordinator is one mounted component instance: the outgoing VideoCall of
\* "A" (one instance, hidden and shown again), and one incoming VideoCall of
\* "B" per time ChatWindow mounts it (fresh state and refs each time).
Coords == {<<"A", 1>>} \cup {<<"B", k>> : k \in 1..MaxSessions}
User(c) == c[1]
NoUser == "none"
Conv   == "c1"

\* the component is the group coordinator
IsGroup == mode \in {"group", "party", "guest"}

One(x) == SetToBag({x})

Signal(from, to, type, grp) ==
    [conv |-> Conv, from |-> from, to |-> to, type |-> type, grp |-> grp]

Task(u, kind, pc, peer, cap) ==
    [u |-> u, kind |-> kind, pc |-> pc, peer |-> peer, cap |-> cap]

\* the group coordinator and the other members of its conversation, in the
\* order getGroupMembers returns them
G       == <<"A", 1>>
Members == <<"B", "C", "D">>
Remotes == {Members[k] : k \in 1..Len(Members)}

\* new RTCPeerConnection(iceServers) with its callbacks and the local tracks
NewPc(target, cap, stream) ==
    [target |-> target,   \* targetUserId of createPeerConnection
     cap    |-> cap,      \* remoteUserId captured by the endCall its callbacks call
     stream |-> stream,   \* local stream whose tracks were added, 0 = none
     open   |-> TRUE,     \* not yet close()d
     sig    |-> "stable", \* signalingState
     hasLocal |-> FALSE, hasRemote |-> FALSE,
     conn   |-> "new",    \* connectionState
     iceSent |-> 0, iceRecv |-> FALSE]

\* a caller that would go on without a stream (faulty variant)
ProceedsAnyway(ok) == TRUE

\* `if (!stream) return;` after await initializeMedia(): ok = a stream came back
Proceeds(ok) == ok

\* the tracks getUserMedia({video: isVideoEnabled, audio: isAudioEnabled})
\* returns, all enabled
NewTracks(u) ==
    [video |-> IF isVideoEnabled[u] THEN "on" ELSE "none",
     audio |-> IF isAudioEnabled[u] THEN "on" ELSE "none"]

\* pc.close()
ClosePc(P, u, i) ==
    IF i = 0 THEN P ELSE [P EXCEPT ![u][i].open = FALSE]

\* localStreamRef.current.getTracks().forEach(track => track.stop())
StopTracks(S, u, h) ==
    IF h = 0 THEN S ELSE [S EXCEPT ![u][h] = @ + 1]

\* a state setter of an unmounted component does nothing; the outgoing
\* VideoCall stays mounted while hidden
Mounted(u) ==
    IF IsGroup THEN ~unmounted[u] ELSE show[u] \/ ~isIncoming[u]

SetStatus(u, s) ==
    IF Mounted(u) THEN [callStatus EXCEPT ![u] = s] ELSE callStatus

Note(u, e) == [hist EXCEPT ![u] = @ \cup {e}]

\* ---------------------------------------------------------------- Init
\* the state after construction, for the mode already chosen
Constructed ==
    /\ \/ mode = "direct" /\ isIncoming = [u \in Coords |-> User(u) = "B"]
       \/ mode = "group" /\ \E inc \in BOOLEAN :
              isIncoming = [u \in Coords |-> IF u = G THEN inc ELSE User(u) = "B"]
       \/ mode = "party" /\ isIncoming = [u \in Coords |-> u # G /\ User(u) = "B"]
       \/ mode = "guest" /\ isIncoming = [u \in Coords |-> u = G \/ User(u) = "B"]
    /\ show = [u \in Coords |-> FALSE]
    /\ sessions = [u \in Coords |-> 0]
    /\ callerId = [u \in Coords |->
                       IF IsGroup /\ u = G /\ isIncoming[u] THEN "B" ELSE NoUser]
    /\ callStatus = [u \in Coords |-> "idle"]
    /\ remoteUserId = [u \in Coords |-> NoUser]
    /\ subRemote = [u \in Coords |-> NoUser]
    /\ localStreamRef = [u \in Coords |-> 0]
    /\ stops = [u \in Coords |-> <<>>]
    /\ pcs = [u \in Coords |-> <<>>]
    /\ peerConnectionRef = [u \in Coords |-> 0]
    /\ tasks = EmptyBag
    /\ hideTimers = [u \in Coords |-> 0]
    /\ bus = EmptyBag
    /\ hist = [u \in Coords |-> {}]
    /\ clicks = [u \in Coords |-> 0]
    /\ unmounted = [u \in Coords |-> FALSE]
    /\ peerConnectionsRef = [u \in Coords |-> <<>>]
    /\ callStartTimeRef = [u \in Coords |-> FALSE]
    /\ participants = [u \in Coords |-> {}]
    /\ chatLog = [u \in Coords |-> 0]
    /\ envSent = 0
    /\ isVideoEnabled = [u \in Coords |-> TRUE]
    /\ isAudioEnabled = [u \in Coords |-> TRUE]
    /\ tracks = [u \in Coords |-> [video |-> "none", audio |-> "none"]]
    /\ toggles = [u \in Coords |-> 0]
    /\ elapsed = [u \in Coords |-> 0]
    /\ logText = [u \in Coords |-> <<>>]

Init == mode \in {"direct", "group"} /\ Constructed

\* ---------------------------------------------------------------- helpers
Publish(b, m) == b (+) One(m)

\* (faulty variant) an insert that is tried again until it succeeds
InsertRetried(b, m, ins) == Publish(b, m)

\* await supabase.from('call_signals').insert(row): the row is added when the
\* write succeeds (ins); a failed write resolves with an error object that
\* the caller does not look at
Insert(b, m, ins) == IF ins THEN Publish(b, m) ELSE b

Subscribed(u) == show[u]

\* the instances of a user, and the one whose subscription receives its rows
Instances(usr) == {c \in Coords : User(c) = usr}
Shown(usr)     == {c \in Instances(usr) : Subscribed(c)}
At(usr)        == CHOOSE c \in Shown(usr) : TRUE

\* createPeerConnection (1:1): the new connection becomes peerConnectionRef.current
CreatePeerConnection(P, u, target, cap) ==
    [P EXCEPT ![u] = Append(@, NewPc(target, cap, localStreamRef[u]))]

\* a callee that would refuse the first offer (faulty variant)
CanSetRemoteOfferFromOfferOnly(pc) == pc.open /\ pc.sig = "have-remote-offer"

\* RTCPeerConnection signaling rules (InvalidStateError otherwise)
CanSetLocalOffer(pc)   == pc.open /\ pc.sig \in {"stable", "have-local-offer"}
CanSetRemoteOffer(pc)  == pc.open /\ pc.sig \in {"stable", "have-remote-offer"}
CanSetRemoteAnswer(pc) == pc.open /\ pc.sig = "have-local-offer"
CanAnswer(pc)          == pc.open /\ pc.sig = "have-remote-offer"

Negotiated(pc) == pc.open /\ pc.hasLocal /\ pc.hasRemote /\ pc.sig = "stable"

\* the onHide prop: setShowVideoCall(false) for the outgoing modal, followed by
\* its cleanup-on-close effect; setIncomingCall(null) unmounts the incoming one
OnHide(u) ==
    /\ show' = [c \in Coords |->
                  IF (isIncoming[u] /\ User(c) = User(u)) \/ c = u THEN FALSE ELSE show[c]]
    /\ IF show[u] /\ ~isIncoming[u]
       THEN /\ stops' = StopTracks(stops, u, localStreamRef[u])
            /\ pcs' = ClosePc(pcs, u, peerConnectionRef[u])
            /\ callStatus' = [callStatus EXCEPT ![u] = "idle"]
       ELSE UNCHANGED <<stops, pcs, callStatus>>
    /\ UNCHANGED hist

\* a startCall that would show 'connected' at once (faulty variant)
StatusOnStartWrong == "connected"

\* a call-rejected handler that would leave the call ringing out (faulty
\* variant)
StatusOnRejectedWrong == "calling"

\* status written by the handlers
StatusOnAccept       == "connected"
StatusOnCallAccepted == "connected"
StatusOnStart        == "calling"
StatusOnRejected     == "ended"

\* endCall of the 1:1 coordinator, entered with the remoteUserId its closure
\* holds; b, P, T are the values of bus, pcs, tasks the caller has reached
EndCall(u, cap, b, P, T) ==
    /\ callStatus' = SetStatus(u, "ended")
    /\ IF cap # NoUser
       THEN /\ bus' = Publish(b, Signal(User(u), cap, "call-ended", FALSE))
            /\ tasks' = T (+) One(Task(u, "endCall", 0, cap, cap))
            /\ pcs' = P
            /\ UNCHANGED <<stops, hideTimers>>
       ELSE /\ bus' = b
            /\ tasks' = T
            /\ stops' = StopTracks(stops, u, localStreamRef[u])
            /\ pcs' = ClosePc(P, u, peerConnectionRef[u])
            /\ hideTimers' = [hideTimers EXCEPT ![u] = @ + 1]

\* ---------------------------------------------------------------- user actions (1:1)
\* the call button: show becomes true, the subscription effect and the
\* auto-start effect run
OpenCall(u) ==
    /\ mode = "direct" /\ ~isIncoming[u] /\ ~show[u]
    /\ sessions[u] < MaxSessions
    /\ show' = [show EXCEPT ![u] = TRUE]
    /\ sessions' = [sessions EXCEPT ![u] = @ + 1]
    /\ subRemote' = [subRemote EXCEPT ![u] = remoteUserId[u]]
    /\ tasks' = IF callStatus[u] = "idle"
                THEN tasks (+) One(Task(u, "startLookup", 0, NoUser, NoUser))
                ELSE tasks
    /\ UNCHANGED <<gvars, mvars, tracks, mode, isIncoming, callerId, callStatus, remoteUserId,
                   localStreamRef, stops, pcs, peerConnectionRef, hideTimers,
                   bus, hist, clicks>>

\* startCall after await getOtherUserId()
StartLookupDone(t, r) ==
    /\ BagIn(t, tasks) /\ t.kind = "startLookup"
    /\ IF r = NoUser
       THEN /\ tasks' = tasks (-) One(t)
            /\ UNCHANGED <<remoteUserId, callStatus>>
       ELSE /\ remoteUserId' = [remoteUserId EXCEPT ![t.u] = r]
            /\ callStatus' = SetStatus(t.u, StatusOnStart)
            /\ tasks' = (tasks (-) One(t)) (+) One(Task(t.u, "startMedia", 0, r, NoUser))
    /\ UNCHANGED <<gvars, mvars, tracks, mode, isIncoming, show, sessions, callerId, subRemote,
                   localStreamRef, stops, pcs, peerConnectionRef, hideTimers,
                   bus, hist, clicks>>

\* startCall after await initializeMedia(): publish call-request, or return
StartMediaDoneIns(t, ok, ins) ==
    /\ BagIn(t, tasks) /\ t.kind = "startMedia"
    /\ tasks' = tasks (-) One(t)
    /\ IF Proceeds(ok)
       THEN /\ isVideoEnabled[t.u] \/ isAudioEnabled[t.u]
            /\ stops' = [stops EXCEPT ![t.u] = Append(@, 0)]
            /\ tracks' = [tracks EXCEPT ![t.u] = NewTracks(t.u)]
            /\ localStreamRef' = [localStreamRef EXCEPT ![t.u] = Len(stops[t.u]) + 1]
            /\ bus' = Insert(bus, Signal(User(t.u), t.peer, "call-request", FALSE), ins)
            /\ hist' = [hist EXCEPT ![t.u] = @ \cup {"requested"} \cup
                                              (IF ins THEN {} ELSE {"requestLost"})]
       ELSE UNCHANGED <<stops, tracks, localStreamRef, bus, hist>>
    /\ UNCHANGED <<gvars, mvars, mode, isIncoming, show, sessions, callerId, callStatus,
                   remoteUserId, subRemote, pcs, peerConnectionRef, hideTimers,
                   clicks>>

\* the same with the insert succeeding
StartMediaDone(t, ok) == StartMediaDoneIns(t, ok, TRUE)

\* acceptCall up to await initializeMedia()
AcceptCall(u) ==
    /\ mode = "direct" /\ show[u] /\ isIncoming[u]
    /\ callStatus[u] = "ringing" /\ callerId[u] # NoUser
    /\ remoteUserId' = [remoteUserId EXCEPT ![u] = callerId[u]]
    /\ callStatus' = SetStatus(u, StatusOnAccept)
    /\ hist' = Note(u, "accept")
    /\ tasks' = tasks (+) One(Task(u, "acceptMedia", 0, callerId[u], remoteUserId[u]))
    /\ UNCHANGED <<gvars, mvars, tracks, mode, isIncoming, show, sessions, callerId, subRemote,
                   localStreamRef, stops, pcs, peerConnectionRef, hideTimers,
                   bus, clicks>>

\* acceptCall after await initializeMedia(): create the link, publish call-accepted
AcceptMediaDone(t, ok) ==
    /\ BagIn(t, tasks) /\ t.kind = "acceptMedia"
    /\ tasks' = tasks (-) One(t)
    /\ IF Proceeds(ok)
       THEN /\ isVideoEnabled[t.u] \/ isAudioEnabled[t.u]
            /\ stops' = [stops EXCEPT ![t.u] = Append(@, 0)]
            /\ tracks' = [tracks EXCEPT ![t.u] = NewTracks(t.u)]
            /\ localStreamRef' = [localStreamRef EXCEPT ![t.u] = Len(stops[t.u]) + 1]
            /\ pcs' = [pcs EXCEPT ![t.u] =
                          Append(@, NewPc(t.peer, t.cap, Len(stops[t.u]) + 1))]
            /\ peerConnectionRef' = [peerConnectionRef EXCEPT ![t.u] = Len(pcs[t.u]) + 1]
            /\ bus' = Publish(bus, Signal(User(t.u), t.peer, "call-accepted", FALSE))
       ELSE UNCHANGED <<stops, tracks, localStreamRef, pcs, peerConnectionRef, bus>>
    /\ UNCHANGED <<gvars, mvars, mode, isIncoming, show, sessions, callerId, callStatus,
                   remoteUserId, subRemote, hideTimers, hist, clicks>>

\* rejectCall up to await insert
RejectCall(u) ==
    /\ mode = "direct" /\ show[u] /\ isIncoming[u]
    /\ callStatus[u] = "ringing" /\ callerId[u] # NoUser
    /\ clicks[u] < MaxClicks
    /\ clicks' = [clicks EXCEPT ![u] = @ + 1]
    /\ bus' = Publish(bus, Signal(User(u), callerId[u], "call-rejected", FALSE))
    /\ tasks' = tasks (+) One(Task(u, "reject", 0, callerId[u], NoUser))
    /\ UNCHANGED <<gvars, mvars, tracks, mode, isIncoming, show, sessions, callerId, callStatus,
                   remoteUserId, subRemote, localStreamRef, stops, pcs,
                   peerConnectionRef, hideTimers, hist>>

\* rejectCall after the insert: onHide()
RejectDone(t) ==
    /\ BagIn(t, tasks) /\ t.kind = "reject"
    /\ tasks' = tasks (-) One(t)
    /\ OnHide(t.u)
    /\ UNCHANGED <<gvars, mvars, tracks, mode, isIncoming, sessions, callerId, remoteUserId, subRemote,
                   localStreamRef, peerConnectionRef, hideTimers, bus, clicks>>

\* the end button, or dismissing the modal (onHide={endCall})
EndCallClickUpTo(u, n) ==
    /\ mode = "direct" /\ show[u]
    /\ clicks[u] < n
    /\ clicks' = [clicks EXCEPT ![u] = @ + 1]
    /\ hist' = Note(u, "userEnd")
    /\ EndCall(u, remoteUserId[u], bus, pcs, tasks)
    /\ UNCHANGED <<gvars, mvars, tracks, mode, isIncoming, show, sessions, callerId, remoteUserId,
                   subRemote, localStreamRef, peerConnectionRef>>

\* the same, at most MaxClicks times per coordinator
EndCallClick(u) == EndCallClickUpTo(u, MaxClicks)

\* endCall after the call-ended insert: cleanup and setTimeout(onHide)
EndCleanup(t) ==
    /\ BagIn(t, tasks) /\ t.kind = "endCall"
    /\ tasks' = tasks (-) One(t)
    /\ stops' = StopTracks(stops, t.u, localStreamRef[t.u])
    /\ pcs' = ClosePc(pcs, t.u, peerConnectionRef[t.u])
    /\ hideTimers' = [hideTimers EXCEPT ![t.u] = @ + 1]
    /\ UNCHANGED <<gvars, mvars, tracks, mode, isIncoming, show, sessions, callerId, callStatus,
                   remoteUserId, subRemote, localStreamRef, peerConnectionRef,
                   bus, hist, clicks>>

\* the grace delay is over: onHide()
HideTimerFires(u) ==
    /\ mode = "direct" /\ hideTimers[u] > 0
    /\ hideTimers' = [hideTimers EXCEPT ![u] = @ - 1]
    /\ OnHide(u)
    /\ UNCHANGED <<gvars, mvars, tracks, mode, isIncoming, sessions, callerId, remoteUserId, subRemote,
                   localStreamRef, peerConnectionRef, tasks, bus, clicks>>

\* a toggle that would remove the track (faulty variant)
FlipAlsoStops(tr, kind) == [tr EXCEPT ![kind] = "none"]

\* videoTrack.enabled = !videoTrack.enabled, as the value of tracks[u]
Flip(tr, kind) ==
    [tr EXCEPT ![kind] = IF @ = "on" THEN "off" ELSE IF @ = "off" THEN "on" ELSE @]

\* toggleVideo: the camera button, enabled while callStatus is 'connected'
ToggleVideo(u) ==
    /\ mode = "direct" /\ show[u] /\ callStatus[u] = "connected"
    /\ toggles[u] < MaxToggles
    /\ toggles' = [toggles EXCEPT ![u] = @ + 1]
    /\ IF localStreamRef[u] # 0 /\ tracks[u].video # "none"
       THEN /\ tracks' = [tracks EXCEPT ![u] = Flip(@, "video")]
            /\ isVideoEnabled' = [isVideoEnabled EXCEPT ![u] = tracks[u].video = "off"]
       ELSE UNCHANGED <<tracks, isVideoEnabled>>
    /\ UNCHANGED <<gvars, mode, isIncoming, show, sessions, callerId, callStatus,
                   remoteUserId, subRemote, localStreamRef, stops, pcs,
                   peerConnectionRef, tasks, hideTimers, bus, hist, clicks,
                   isAudioEnabled>>

\* toggleAudio: the microphone button
ToggleAudio(u) ==
    /\ mode = "direct" /\ show[u] /\ callStatus[u] = "connected"
    /\ toggles[u] < MaxToggles
    /\ toggles' = [toggles EXCEPT ![u] = @ + 1]
    /\ IF localStreamRef[u] # 0 /\ tracks[u].audio # "none"
       THEN /\ tracks' = [tracks EXCEPT ![u] = Flip(@, "audio")]
            /\ isAudioEnabled' = [isAudioEnabled EXCEPT ![u] = tracks[u].audio = "off"]
       ELSE UNCHANGED <<tracks, isAudioEnabled>>
    /\ UNCHANGED <<gvars, mode, isIncoming, show, sessions, callerId, callStatus,
                   remoteUserId, subRemote, localStreamRef, stops, pcs,
                   peerConnectionRef, tasks, hideTimers, bus, hist, clicks,
                   isVideoEnabled>>

\* ---------------------------------------------------------------- signal handlers (1:1)
\* ChatWindow's incoming-call listener: setIncomingCall mounts the incoming
\* VideoCall (fresh state and refs; its effects subscribe and set 'ringing'),
\* or hands new props to the one already mounted
RecvCallRequest(m) ==
    /\ mode = "direct" /\ BagIn(m, bus) /\ m.type = "call-request"
    /\ bus' = bus (-) One(m)
    /\ IF Shown(m.to) # {}
       THEN /\ callerId' = [callerId EXCEPT ![At(m.to)] = m.from]
            /\ UNCHANGED <<show, sessions, callStatus>>
       ELSE \E c \in Instances(m.to) :
            /\ isIncoming[c] /\ sessions[c] = 0
            /\ \A d \in Instances(m.to) : d[2] < c[2] => sessions[d] > 0
            /\ callerId' = [callerId EXCEPT ![c] = m.from]
            /\ show' = [show EXCEPT ![c] = TRUE]
            /\ sessions' = [sessions EXCEPT ![c] = @ + 1]
            /\ callStatus' = [callStatus EXCEPT ![c] = "ringing"]
    /\ UNCHANGED <<gvars, mvars, tracks, mode, isIncoming, remoteUserId, subRemote, localStreamRef,
                   peerConnectionRef, stops, pcs, tasks, hideTimers, hist, clicks>>

\* a row for a coordinator without a subscription, of another conversation, or
\* of a type its switch has no case for
DropSignal(m) ==
    /\ mode = "direct" /\ BagIn(m, bus)
    /\ \/ m.type # "call-request" /\ Shown(m.to) = {}
       \/ m.type = "call-request" /\ \A c \in Instances(m.to) : ~isIncoming[c]
       \/ m.type # "call-request" /\ m.conv # Conv
    /\ bus' = bus (-) One(m)
    /\ UNCHANGED <<gvars, mvars, tracks, mode, isIncoming, show, sessions, callerId, callStatus,
                   remoteUserId, subRemote, localStreamRef, stops, pcs,
                   peerConnectionRef, tasks, hideTimers, hist, clicks>>

Handles(m, type) ==
    /\ mode = "direct" /\ BagIn(m, bus) /\ m.type = type
    /\ Shown(m.to) # {} /\ m.conv = Conv

\* case 'call-accepted' up to await pc.createOffer()
RecvCallAccepted(m) ==
    /\ Handles(m, "call-accepted")
    /\ bus' = bus (-) One(m)
    /\ callStatus' = SetStatus(At(m.to), StatusOnCallAccepted)
    /\ hist' = Note(At(m.to), "gotAccepted")
    /\ pcs' = CreatePeerConnection(pcs, At(m.to), m.from, subRemote[At(m.to)])
    /\ peerConnectionRef' = [peerConnectionRef EXCEPT ![At(m.to)] = Len(pcs[At(m.to)]) + 1]
    /\ tasks' = tasks (+) One(Task(At(m.to), "offer", Len(pcs[At(m.to)]) + 1, m.from, NoUser))
    /\ UNCHANGED <<gvars, mvars, tracks, mode, isIncoming, show, sessions, callerId, remoteUserId,
                   subRemote, localStreamRef, stops, hideTimers, clicks>>

\* case 'call-accepted' after createOffer: setLocalDescription, publish the offer
OfferReady(t) ==
    /\ BagIn(t, tasks) /\ t.kind = "offer"
    /\ tasks' = tasks (-) One(t)
    /\ IF CanSetLocalOffer(pcs[t.u][t.pc])
       THEN /\ pcs' = [pcs EXCEPT ![t.u][t.pc].sig = "have-local-offer",
                                  ![t.u][t.pc].hasLocal = TRUE]
            /\ bus' = Publish(bus, Signal(User(t.u), t.peer, "offer", FALSE))
       ELSE UNCHANGED <<pcs, bus>>
    /\ UNCHANGED <<gvars, mvars, tracks, mode, isIncoming, show, sessions, callerId, callStatus,
                   remoteUserId, subRemote, localStreamRef, stops,
                   peerConnectionRef, hideTimers, hist, clicks>>

\* case 'call-rejected'
RecvCallRejected(m) ==
    /\ Handles(m, "call-rejected")
    /\ bus' = bus (-) One(m)
    /\ callStatus' = SetStatus(At(m.to), StatusOnRejected)
    /\ hideTimers' = [hideTimers EXCEPT ![At(m.to)] = @ + 1]
    /\ hist' = Note(At(m.to), "gotRejected")
    /\ UNCHANGED <<gvars, mvars, tracks, mode, isIncoming, show, sessions, callerId, remoteUserId,
                   subRemote, localStreamRef, stops, pcs, peerConnectionRef,
                   tasks, clicks>>

\* case 'call-ended': endCall() of the closure the subscription was made in
RecvCallEnded(m) ==
    /\ Handles(m, "call-ended")
    /\ EndCall(At(m.to), subRemote[At(m.to)], bus (-) One(m), pcs, tasks)
    /\ UNCHANGED <<gvars, mvars, tracks, mode, isIncoming, show, sessions, callerId, remoteUserId,
                   subRemote, localStreamRef, peerConnectionRef, hist, clicks>>

\* case 'offer' up to the end of await setRemoteDescription
RecvOffer(m) ==
    /\ Handles(m, "offer")
    /\ bus' = bus (-) One(m)
    /\ LET u == At(m.to)
           i == peerConnectionRef[u]
       IN IF i # 0 /\ CanSetRemoteOffer(pcs[u][i])
          THEN /\ pcs' = [pcs EXCEPT ![u][i].sig = "have-remote-offer",
                                     ![u][i].hasRemote = TRUE]
               /\ tasks' = tasks (+) One(Task(u, "answer", i, m.from, NoUser))
          ELSE UNCHANGED <<pcs, tasks>>
    /\ UNCHANGED <<gvars, mvars, tracks, mode, isIncoming, show, sessions, callerId, callStatus,
                   remoteUserId, subRemote, localStreamRef, stops,
                   peerConnectionRef, hideTimers, hist, clicks>>

\* (faulty variant) the reply to an offer is itself published as an offer
ReplyToOfferAsOffer == "offer"

\* the type of the row the 'offer' case publishes
ReplyToOffer == "answer"

\* case 'offer' after setRemoteDescription: createAnswer and setLocalDescription
\* on peerConnectionRef.current, publish the answer
AnswerReady(t) ==
    /\ BagIn(t, tasks) /\ t.kind = "answer"
    /\ tasks' = tasks (-) One(t)
    /\ LET i == peerConnectionRef[t.u]
       IN IF CanAnswer(pcs[t.u][i])
          THEN /\ pcs' = [pcs EXCEPT ![t.u][i].sig = "stable",
                                     ![t.u][i].hasLocal = TRUE]
               /\ bus' = Publish(bus, Signal(User(t.u), t.peer, ReplyToOffer, FALSE))
          ELSE UNCHANGED <<pcs, bus>>
    /\ UNCHANGED <<gvars, mvars, tracks, mode, isIncoming, show, sessions, callerId, callStatus,
                   remoteUserId, subRemote, localStreamRef, stops,
                   peerConnectionRef, hideTimers, hist, clicks>>

\* case 'answer'
RecvAnswer(m) ==
    /\ Handles(m, "answer")
    /\ bus' = bus (-) One(m)
    /\ LET u == At(m.to)
           i == peerConnectionRef[u]
       IN IF i # 0 /\ CanSetRemoteAnswer(pcs[u][i])
          THEN pcs' = [pcs EXCEPT ![u][i].sig = "stable", ![u][i].hasRemote = TRUE]
          ELSE UNCHANGED pcs
    /\ UNCHANGED <<gvars, mvars, tracks, mode, isIncoming, show, sessions, callerId, callStatus,
                   remoteUserId, subRemote, localStreamRef, stops,
                   peerConnectionRef, tasks, hideTimers, hist, clicks>>

\* case 'ice-candidate': addIceCandidate fails before a remote description
RecvIceCandidate(m) ==
    /\ Handles(m, "ice-candidate")
    /\ bus' = bus (-) One(m)
    /\ LET u == At(m.to)
           i == peerConnectionRef[u]
       IN IF i # 0 /\ pcs[u][i].open /\ pcs[u][i].hasRemote
          THEN pcs' = [pcs EXCEPT ![u][i].iceRecv = TRUE]
          ELSE UNCHANGED pcs
    /\ UNCHANGED <<gvars, mvars, tracks, mode, isIncoming, show, sessions, callerId, callStatus,
                   remoteUserId, subRemote, localStreamRef, stops,
                   peerConnectionRef, tasks, hideTimers, hist, clicks>>

\* ---------------------------------------------------------------- transport (1:1)
\* the remote end of link i of u has finished the offer/answer exchange too
PeerReady(u, i) ==
    \E c \in Instances(pcs[u][i].target) : \E j \in 1..Len(pcs[c]) :
        /\ pcs[c][j].target = User(u)
        /\ Negotiated(pcs[c][j])

\* every peer connection created so far, as <<coordinator, index>>
AllPcs == UNION {{<<c, i>> : i \in 1..Len(pcs[c])} : c \in Coords}

RECURSIVE IceSum(_)
IceSum(S) ==
    IF S = {} THEN 0
    ELSE LET x == CHOOSE y \in S : TRUE
         IN pcs[x[1]][x[2]].iceSent + IceSum(S \ {x})

FailedPcs == {x \in AllPcs : pcs[x[1]][x[2]].conn = "failed"}

\* pc.onicecandidate with a candidate: publish it to targetId
IceCandidate(u, i) ==
    /\ mode = "direct" /\ i \in 1..Len(pcs[u])
    /\ pcs[u][i].open /\ pcs[u][i].hasLocal
    /\ IceSum(AllPcs) < MaxIce
    /\ pcs' = [pcs EXCEPT ![u][i].iceSent = @ + 1]
    /\ bus' = Publish(bus, Signal(User(u), pcs[u][i].target, "ice-candidate", FALSE))
    /\ UNCHANGED <<gvars, mvars, tracks, mode, isIncoming, show, sessions, callerId, callStatus,
                   remoteUserId, subRemote, localStreamRef, stops,
                   peerConnectionRef, tasks, hideTimers, hist, clicks>>

\* (faulty variant) a call that has ended stays ended
StatusOnConnectedUnlessEnded(prev) == IF prev = "ended" THEN prev ELSE "connected"

\* the status the 'connected' branch of onconnectionstatechange sets, given
\* the status before
StatusOnConnected(prev) == "connected"

\* pc.onconnectionstatechange with connectionState 'connected'
TransportConnected(u, i) ==
    /\ mode = "direct" /\ i \in 1..Len(pcs[u])
    /\ Negotiated(pcs[u][i]) /\ pcs[u][i].conn = "new" /\ PeerReady(u, i)
    /\ pcs' = [pcs EXCEPT ![u][i].conn = "connected"]
    /\ callStatus' = SetStatus(u, StatusOnConnected(callStatus[u]))
    /\ hist' = Note(u, "transportConnected")
    /\ UNCHANGED <<gvars, mvars, tracks, mode, isIncoming, show, sessions, callerId, remoteUserId,
                   subRemote, localStreamRef, stops, peerConnectionRef, tasks,
                   hideTimers, bus, clicks>>

\* pc.onconnectionstatechange with 'disconnected' or 'failed': endCall() of the
\* closure the link was created in
TransportFailed(u, i) ==
    /\ mode = "direct" /\ i \in 1..Len(pcs[u])
    /\ pcs[u][i].open /\ pcs[u][i].hasLocal /\ pcs[u][i].conn # "failed"
    /\ Cardinality(FailedPcs) < MaxFailures
    /\ EndCall(u, pcs[u][i].cap, bus, [pcs EXCEPT ![u][i].conn = "failed"], tasks)
    /\ UNCHANGED <<gvars, mvars, tracks, mode, isIncoming, show, sessions, callerId, remoteUserId,
                   subRemote, localStreamRef, peerConnectionRef, hist, clicks>>

\* ================================================================ group coordinator
\* peerConnectionsRef.current: a JS Map, kept as its entries in insertion order;
\* `first` is the index of the connection the key was inserted with
MapHas(M, id) == \E k \in 1..Len(M) : M[k].id = id
\* a lookup that would never find the key (faulty variant)
MapGetNothing(M, id) == 0

\* a lookup that would fall back to the oldest entry for a key the map does
\* not hold (faulty variant)
MapGetOrFirst(M, id) ==
    IF MapHas(M, id) THEN M[CHOOSE k \in 1..Len(M) : M[k].id = id].pc
    ELSE IF Len(M) > 0 THEN M[1].pc ELSE 0

\* Map.get: the value of the key, undefined (0) for a key the map does not hold
MapGet(M, id) ==
    IF MapHas(M, id) THEN M[CHOOSE k \in 1..Len(M) : M[k].id = id].pc ELSE 0

\* a list that would append an entry on every set (faulty variant)
MapSetAppends(M, id, pc) == Append(M, [id |-> id, pc |-> pc, first |-> pc])

\* Map.set: replaces the value of an existing key in place, else appends
MapSet(M, id, pc) ==
    IF MapHas(M, id)
    THEN [k \in 1..Len(M) |-> IF M[k].id = id THEN [M[k] EXCEPT !.pc = pc] ELSE M[k]]
    ELSE Append(M, [id |-> id, pc |-> pc, first |-> pc])

\* a delete that would drop every entry (faulty variant)
MapDeleteClears(M, id) == <<>>

\* Map.delete
MapDelete(M, id) == SelectSeq(M, LAMBDA e : e.id # id)

MapKeys(M) == {M[k].id : k \in 1..Len(M)}
MapPcs(M)  == {M[k].pc : k \in 1..Len(M)}

\* peerConnectionsRef.current.forEach(pc => pc.close())
CloseAll(P, u, M) ==
    [P EXCEPT ![u] = [i \in 1..Len(@) |->
                        IF i \in MapPcs(M) THEN [@[i] EXCEPT !.open = FALSE] ELSE @[i]]]

\* what no action of the group coordinator changes / what only endCall's
\* insert into messages changes
GFixed0 == <<mode, isIncoming, callerId, dvars, mvars, elapsed>>
GFixed == <<GFixed0, logText>>

\* status written by the group handlers
GStatusOnAccept == "connected"
GStatusOnStart  == "calling"

\* the component is shown: the subscription effect and the auto-start effect
\* (startGroupCall up to await initializeMedia) run
GOpen(u) ==
    /\ IsGroup /\ u = G /\ ~show[u] /\ ~unmounted[u]
    /\ sessions[u] < MaxSessions
    /\ show' = [show EXCEPT ![u] = TRUE]
    /\ sessions' = [sessions EXCEPT ![u] = @ + 1]
    /\ IF ~isIncoming[u] /\ callStatus[u] = "idle"
       THEN /\ callStatus' = SetStatus(u, GStatusOnStart)
            /\ tasks' = tasks (+) One(Task(u, "gStartMedia", 0, NoUser, NoUser))
       ELSE UNCHANGED <<callStatus, tasks>>
    /\ UNCHANGED <<GFixed, tracks, localStreamRef, stops, pcs, hideTimers, bus, hist, clicks,
                   unmounted, peerConnectionsRef, callStartTimeRef, participants,
                   chatLog, envSent>>

\* startGroupCall / acceptCall after await initializeMedia()
GMediaDone(t, ok) ==
    /\ BagIn(t, tasks) /\ t.kind \in {"gStartMedia", "gAcceptMedia"}
    /\ IF Proceeds(ok)
       THEN /\ isVideoEnabled[t.u] \/ isAudioEnabled[t.u]
            /\ stops' = [stops EXCEPT ![t.u] = Append(@, 0)]
            /\ tracks' = [tracks EXCEPT ![t.u] = NewTracks(t.u)]
            /\ localStreamRef' = [localStreamRef EXCEPT ![t.u] = Len(stops[t.u]) + 1]
            /\ tasks' = (tasks (-) One(t)) (+)
                   One(Task(t.u, IF t.kind = "gStartMedia" THEN "gStartMembers"
                                 ELSE "gAcceptMembers", 0, t.peer, NoUser))
       ELSE /\ tasks' = tasks (-) One(t)
            /\ UNCHANGED <<stops, tracks, localStreamRef>>
    /\ UNCHANGED <<GFixed, show, sessions, callStatus, pcs, hideTimers, bus, hist,
                   clicks, unmounted, peerConnectionsRef, callStartTimeRef,
                   participants, chatLog, envSent>>

\* the members of ms whose insert succeeded (sent), in the order of the loop
Written(ms, sent) == SelectSeq(ms, LAMBDA m : m \in sent)

\* a loop that would stop after its first member (faulty variant)
CallRequestsFirstOnly(from, ms) ==
    IF ms = <<>> THEN EmptyBag ELSE One(Signal(from, Head(ms), "call-request", TRUE))

\* the call_signals rows of the loop `for (const member of members)`
RECURSIVE CallRequests(_, _)
CallRequests(from, ms) ==
    IF ms = <<>> THEN EmptyBag
    ELSE One(Signal(from, Head(ms), "call-request", TRUE)) (+) CallRequests(from, Tail(ms))

\* startGroupCall after await getGroupMembers(): setParticipants, then a
\* call-request to every member
GStartMembersDoneIns(t, sent) ==
    /\ BagIn(t, tasks) /\ t.kind = "gStartMembers"
    /\ tasks' = tasks (-) One(t)
    /\ participants' = IF Mounted(t.u) THEN [participants EXCEPT ![t.u] = Remotes]
                       ELSE participants
    /\ bus' = bus (+) CallRequests(User(t.u), Written(Members, sent))
    /\ hist' = IF sent = {} THEN Note(t.u, "requestLost") ELSE hist
    /\ UNCHANGED <<GFixed, tracks, show, sessions, callStatus, localStreamRef, stops, pcs,
                   hideTimers, clicks, unmounted, peerConnectionsRef,
                   callStartTimeRef, chatLog, envSent>>

\* the same with every insert succeeding
GStartMembersDone(t) == GStartMembersDoneIns(t, Remotes)

\* acceptCall up to await initializeMedia()
GAcceptCall(u) ==
    /\ IsGroup /\ show[u] /\ isIncoming[u]
    /\ callStatus[u] = "idle" /\ callerId[u] # NoUser
    /\ callStatus' = SetStatus(u, GStatusOnAccept)
    /\ callStartTimeRef' = [callStartTimeRef EXCEPT ![u] = TRUE]
    /\ hist' = Note(u, "accept")
    /\ tasks' = tasks (+) One(Task(u, "gAcceptMedia", 0, callerId[u], NoUser))
    /\ UNCHANGED <<GFixed, tracks, show, sessions, localStreamRef, stops, pcs, hideTimers,
                   bus, clicks, unmounted, peerConnectionsRef, participants,
                   chatLog, envSent>>

\* acceptCall after await getGroupMembers(): link to the caller, publish call-accepted
GAcceptMembersDone(t) ==
    /\ BagIn(t, tasks) /\ t.kind = "gAcceptMembers"
    /\ tasks' = tasks (-) One(t)
    /\ participants' = IF Mounted(t.u) THEN [participants EXCEPT ![t.u] = Remotes]
                       ELSE participants
    /\ pcs' = [pcs EXCEPT ![t.u] = Append(@, NewPc(t.peer, NoUser, localStreamRef[t.u]))]
    /\ peerConnectionsRef' = [peerConnectionsRef EXCEPT ![t.u] =
                                 MapSet(@, t.peer, Len(pcs[t.u]) + 1)]
    /\ bus' = Publish(bus, Signal(User(t.u), t.peer, "call-accepted", TRUE))
    /\ UNCHANGED <<GFixed, tracks, show, sessions, callStatus, localStreamRef, stops,
                   hideTimers, hist, clicks, unmounted, callStartTimeRef, chatLog,
                   envSent>>

\* rejectCall up to await insert
GRejectCall(u) ==
    /\ IsGroup /\ show[u] /\ isIncoming[u]
    /\ callStatus[u] = "idle" /\ callerId[u] # NoUser
    /\ clicks[u] < MaxClicks
    /\ clicks' = [clicks EXCEPT ![u] = @ + 1]
    /\ bus' = Publish(bus, Signal(User(u), callerId[u], "call-rejected", TRUE))
    /\ tasks' = tasks (+) One(Task(u, "gReject", 0, callerId[u], NoUser))
    /\ UNCHANGED <<GFixed, tracks, show, sessions, callStatus, localStreamRef, stops, pcs,
                   hideTimers, hist, unmounted, peerConnectionsRef,
                   callStartTimeRef, participants, chatLog, envSent>>

\* the onHide prop of the group modal: the parent hides it
GOnHide(u) == show' = [show EXCEPT ![u] = FALSE]

\* rejectCall after the insert: onHide()
GRejectDone(t) ==
    /\ BagIn(t, tasks) /\ t.kind = "gReject"
    /\ tasks' = tasks (-) One(t)
    /\ GOnHide(t.u)
    /\ UNCHANGED <<GFixed, tracks, sessions, callStatus, localStreamRef, stops, pcs,
                   hideTimers, bus, hist, clicks, unmounted, peerConnectionsRef,
                   callStartTimeRef, participants, chatLog, envSent>>

\* (faulty variant) the minutes are always written
DurationTextWithMinutes(ms) ==
    LET duration == ms \div 1000
    IN <<duration \div 60, "phut", duration % 60, "giay">>

\* the content of the duration message, as the words of the template string:
\* Math.floor of the elapsed milliseconds over 1000, then minutes and seconds
DurationText(ms) ==
    LET duration == ms \div 1000
        minutes  == duration \div 60
        seconds  == duration % 60
    IN IF minutes > 0 THEN <<minutes, "phut", seconds, "giay">>
       ELSE <<seconds, "giay">>

\* endCall of the group coordinator from the point its loop over
\* peerConnectionsRef.current has reached (last = `first` of the entry visited
\* last); b, T, M, P are the values of bus, tasks, the map and pcs reached
GEndFrom(u, last, b, T, M, P) ==
    LET nxt == {k \in 1..Len(M) : M[k].first > last}
    IN IF nxt # {}
       THEN LET e == M[CHOOSE k \in nxt : \A j \in nxt : k <= j]
            IN /\ bus' = Publish(b, Signal(User(u), e.id, "call-ended", TRUE))
               /\ tasks' = T (+) One(Task(u, "gEndLoop", e.first, NoUser, NoUser))
               /\ pcs' = P
               /\ peerConnectionsRef' = [peerConnectionsRef EXCEPT ![u] = M]
               /\ UNCHANGED <<chatLog, logText, stops, hideTimers>>
       ELSE IF callStartTimeRef[u]
       THEN /\ chatLog' = [chatLog EXCEPT ![u] = @ + 1]
            /\ logText' = [logText EXCEPT ![u] = DurationText(elapsed[u])]
            /\ tasks' = T (+) One(Task(u, "gEndLog", 0, NoUser, NoUser))
            /\ bus' = b
            /\ pcs' = P
            /\ peerConnectionsRef' = [peerConnectionsRef EXCEPT ![u] = M]
            /\ UNCHANGED <<stops, hideTimers>>
       ELSE /\ bus' = b
            /\ tasks' = T
            /\ stops' = StopTracks(stops, u, localStreamRef[u])
            /\ pcs' = CloseAll(P, u, M)
            /\ peerConnectionsRef' = [peerConnectionsRef EXCEPT ![u] = <<>>]
            /\ hideTimers' = [hideTimers EXCEPT ![u] = @ + 1]
            /\ UNCHANGED <<chatLog, logText>>

\* the cancel / end button, or dismissing the modal (onHide={() => endCall()})
GEndCallClickUpTo(u, n) ==
    /\ IsGroup /\ show[u]
    /\ clicks[u] < n
    /\ clicks' = [clicks EXCEPT ![u] = @ + 1]
    /\ hist' = Note(u, "userEnd")
    /\ callStatus' = SetStatus(u, "ended")
    /\ GEndFrom(u, 0, bus, tasks, peerConnectionsRef[u], pcs)
    /\ UNCHANGED <<GFixed0, tracks, show, sessions, localStreamRef, unmounted,
                   callStartTimeRef, participants, envSent>>

\* the same, at most MaxClicks times
GEndCallClick(u) == GEndCallClickUpTo(u, MaxClicks)

\* endCall after one insert of its loop
GEndLoopNext(t) ==
    /\ BagIn(t, tasks) /\ t.kind = "gEndLoop"
    /\ GEndFrom(t.u, t.pc, bus, tasks (-) One(t), peerConnectionsRef[t.u], pcs)
    /\ UNCHANGED <<GFixed0, tracks, show, sessions, callStatus, localStreamRef, hist, clicks,
                   unmounted, callStartTimeRef, participants, envSent>>

\* endCall after the insert into messages: cleanup and setTimeout(onHide)
GEndLogDone(t) ==
    /\ BagIn(t, tasks) /\ t.kind = "gEndLog"
    /\ tasks' = tasks (-) One(t)
    /\ stops' = StopTracks(stops, t.u, localStreamRef[t.u])
    /\ pcs' = CloseAll(pcs, t.u, peerConnectionsRef[t.u])
    /\ peerConnectionsRef' = [peerConnectionsRef EXCEPT ![t.u] = <<>>]
    /\ hideTimers' = [hideTimers EXCEPT ![t.u] = @ + 1]
    /\ UNCHANGED <<GFixed, tracks, show, sessions, callStatus, localStreamRef, bus, hist,
                   clicks, unmounted, callStartTimeRef, participants, chatLog, envSent>>

\* the grace delay is over: onHide()
GHideTimerFires(u) ==
    /\ IsGroup /\ hideTimers[u] > 0
    /\ hideTimers' = [hideTimers EXCEPT ![u] = @ - 1]
    /\ GOnHide(u)
    /\ UNCHANGED <<GFixed, tracks, sessions, callStatus, localStreamRef, stops, pcs, tasks,
                   bus, hist, clicks, unmounted, peerConnectionsRef,
                   callStartTimeRef, participants, chatLog, envSent>>

\* the parent unmounts the hidden component: cleanup-on-unmount effect
GUnmount(u) ==
    /\ IsGroup /\ ~show[u] /\ sessions[u] > 0 /\ ~unmounted[u]
    /\ unmounted' = [unmounted EXCEPT ![u] = TRUE]
    /\ stops' = StopTracks(stops, u, localStreamRef[u])
    /\ pcs' = CloseAll(pcs, u, peerConnectionsRef[u])
    /\ UNCHANGED <<GFixed, tracks, show, sessions, callStatus, localStreamRef, tasks,
                   hideTimers, bus, hist, clicks, peerConnectionsRef,
                   callStartTimeRef, participants, chatLog, envSent>>

\* toggleVideo (group): the camera button of the connected-call UI
GToggleVideo(u) ==
    /\ IsGroup /\ show[u] /\ callStatus[u] \in {"connected", "ringing"}
    /\ toggles[u] < MaxToggles
    /\ toggles' = [toggles EXCEPT ![u] = @ + 1]
    /\ IF localStreamRef[u] # 0 /\ tracks[u].video # "none"
       THEN /\ tracks' = [tracks EXCEPT ![u] = Flip(@, "video")]
            /\ isVideoEnabled' = [isVideoEnabled EXCEPT ![u] = tracks[u].video = "off"]
       ELSE UNCHANGED <<tracks, isVideoEnabled>>
    /\ UNCHANGED <<gvars, mode, isIncoming, callerId, dvars, show, sessions,
                   callStatus, localStreamRef, stops, pcs, tasks, hideTimers, bus,
                   hist, clicks, isAudioEnabled>>

\* toggleAudio (group): the microphone button of the connected-call UI
GToggleAudio(u) ==
    /\ IsGroup /\ show[u] /\ callStatus[u] \in {"connected", "ringing"}
    /\ toggles[u] < MaxToggles
    /\ toggles' = [toggles EXCEPT ![u] = @ + 1]
    /\ IF localStreamRef[u] # 0 /\ tracks[u].audio # "none"
       THEN /\ tracks' = [tracks EXCEPT ![u] = Flip(@, "audio")]
            /\ isAudioEnabled' = [isAudioEnabled EXCEPT ![u] = tracks[u].audio = "off"]
       ELSE UNCHANGED <<tracks, isAudioEnabled>>
    /\ UNCHANGED <<gvars, mode, isIncoming, callerId, dvars, show, sessions,
                   callStatus, localStreamRef, stops, pcs, tasks, hideTimers, bus,
                   hist, clicks, isVideoEnabled>>

\* ---------------------------------------------------------------- signal handlers (group)
\* the link of u to member id, 0 if none
LinkOf(u, id) == MapGet(peerConnectionsRef[u], id)

\* the note that a call-rejected of member m was received
RejectNote(m) == CASE m = "B" -> "rejectedB" [] m = "C" -> "rejectedC" [] OTHER -> "rejectedD"

\* what a member that follows the protocol sends, and when: call-accepted for
\* a call-request it got, an offer for a call-accepted it got, an answer to
\* the offer of its link, call-ended when it leaves a negotiated link
Follows(u, from, type) ==
    CASE type = "call-accepted" ->
             /\ BagIn(Signal(User(u), from, "call-request", TRUE), bus)
             /\ \A i \in 1..Len(pcs[u]) : pcs[u][i].target # from
             /\ RejectNote(from) \notin hist[u]
      [] type = "call-rejected" ->
             /\ BagIn(Signal(User(u), from, "call-request", TRUE), bus)
             /\ \A i \in 1..Len(pcs[u]) : pcs[u][i].target # from
             /\ RejectNote(from) \notin hist[u]
      [] type = "offer" ->
             /\ BagIn(Signal(User(u), from, "call-accepted", TRUE), bus)
             /\ LinkOf(u, from) # 0 /\ ~pcs[u][LinkOf(u, from)].hasRemote
      [] type = "answer" ->
             LinkOf(u, from) # 0 /\ pcs[u][LinkOf(u, from)].sig = "have-local-offer"
      [] type = "call-ended" ->
             LinkOf(u, from) # 0 /\ Negotiated(pcs[u][LinkOf(u, from)])
      [] OTHER -> FALSE

\* a row of type `type` from member `from` reaches the subscription of the
\* shown component
EnvCan(u, from, type) ==
    /\ IsGroup /\ u = G /\ show[u]
    /\ IF mode \in {"party", "guest"} THEN Follows(u, from, type) ELSE envSent < MaxEnv

\* createPeerConnection (group): the new connection is put into the map
GCreatePeerConnection(P, u, target) ==
    [P EXCEPT ![u] = Append(@, NewPc(target, NoUser, localStreamRef[u]))]

\* (faulty variant) the callback looks at the conversation only
GAcceptsAnyMarker(conv, grp) == conv = Conv

\* the two checks at the top of the callback: the row is of this conversation
\* and its signal_data carries isGroupCall
GAccepts(conv, grp) == conv = Conv /\ grp

\* rows the handler returns on: another conversation, or no isGroupCall marker
GRecvForeign(u, from, conv, grp) ==
    /\ EnvCan(u, from, "foreign")
    /\ ~GAccepts(conv, grp)
    /\ envSent' = envSent + 1
    /\ hist' = Note(u, "returned")
    /\ UNCHANGED <<GFixed, tracks, show, sessions, callStatus, localStreamRef, stops, pcs,
                   tasks, hideTimers, bus, clicks, unmounted,
                   peerConnectionsRef, callStartTimeRef, participants, chatLog>>

\* (faulty variant) a row of an unhandled type ends the call
GStatusOnUnhandledEnds(prev) == "ended"

\* the switch has no default: the status after a row of a type without a case
GStatusOnUnhandled(prev) == prev

\* types the switch has no case for
GRecvUnhandled(u, from, type) ==
    /\ EnvCan(u, from, type)
    /\ type \in {"call-request", "call-rejected"}
    /\ envSent' = envSent + 1
    /\ callStatus' = SetStatus(u, GStatusOnUnhandled(callStatus[u]))
    /\ hist' = IF type = "call-rejected" THEN Note(u, RejectNote(from)) ELSE hist
    /\ UNCHANGED <<GFixed, tracks, show, sessions, localStreamRef, stops, pcs,
                   tasks, hideTimers, bus, clicks, unmounted,
                   peerConnectionsRef, callStartTimeRef, participants, chatLog>>

\* case 'call-accepted' up to await pc.createOffer()
GRecvCallAccepted(u, from) ==
    /\ EnvCan(u, from, "call-accepted")
    /\ envSent' = envSent + 1
    /\ pcs' = GCreatePeerConnection(pcs, u, from)
    /\ peerConnectionsRef' = [peerConnectionsRef EXCEPT ![u] =
                                 MapSet(@, from, Len(pcs[u]) + 1)]
    /\ tasks' = tasks (+) One(Task(u, "gOffer", Len(pcs[u]) + 1, from, NoUser))
    /\ UNCHANGED <<GFixed, tracks, show, sessions, callStatus, localStreamRef, stops,
                   hideTimers, bus, hist, clicks, unmounted, callStartTimeRef,
                   participants, chatLog>>

\* case 'call-accepted' after createOffer: setLocalDescription, publish the offer
GOfferReady(t) ==
    /\ BagIn(t, tasks) /\ t.kind = "gOffer"
    /\ tasks' = tasks (-) One(t)
    /\ IF CanSetLocalOffer(pcs[t.u][t.pc])
       THEN /\ pcs' = [pcs EXCEPT ![t.u][t.pc].sig = "have-local-offer",
                                  ![t.u][t.pc].hasLocal = TRUE]
            /\ bus' = Publish(bus, Signal(User(t.u), t.peer, "offer", TRUE))
       ELSE UNCHANGED <<pcs, bus>>
    /\ UNCHANGED <<GFixed, tracks, show, sessions, callStatus, localStreamRef, stops,
                   hideTimers, hist, clicks, gvars>>

\* case 'offer' up to the end of await setRemoteDescription
GRecvOffer(u, from) ==
    /\ EnvCan(u, from, "offer")
    /\ envSent' = envSent + 1
    /\ LET have == MapGet(peerConnectionsRef[u], from)
           i    == IF have = 0 THEN Len(pcs[u]) + 1 ELSE have
           P1   == IF have = 0 THEN GCreatePeerConnection(pcs, u, from) ELSE pcs
       IN /\ peerConnectionsRef' =
                 IF have = 0
                 THEN [peerConnectionsRef EXCEPT ![u] = MapSet(@, from, i)]
                 ELSE peerConnectionsRef
          /\ IF CanSetRemoteOffer(P1[u][i])
             THEN /\ pcs' = [P1 EXCEPT ![u][i].sig = "have-remote-offer",
                                       ![u][i].hasRemote = TRUE]
                  /\ tasks' = tasks (+) One(Task(u, "gAnswer", i, from, NoUser))
             ELSE /\ pcs' = P1
                  /\ UNCHANGED tasks
    /\ UNCHANGED <<GFixed, tracks, show, sessions, callStatus, localStreamRef, stops,
                   hideTimers, bus, hist, clicks, unmounted, callStartTimeRef,
                   participants, chatLog>>

\* case 'offer' after setRemoteDescription: createAnswer, setLocalDescription,
\* publish the answer
GAnswerReady(t) ==
    /\ BagIn(t, tasks) /\ t.kind = "gAnswer"
    /\ tasks' = tasks (-) One(t)
    /\ IF CanAnswer(pcs[t.u][t.pc])
       THEN /\ pcs' = [pcs EXCEPT ![t.u][t.pc].sig = "stable",
                                  ![t.u][t.pc].hasLocal = TRUE]
            /\ bus' = Publish(bus, Signal(User(t.u), t.peer, "answer", TRUE))
       ELSE UNCHANGED <<pcs, bus>>
    /\ UNCHANGED <<GFixed, tracks, show, sessions, callStatus, localStreamRef, stops,
                   hideTimers, hist, clicks, gvars>>

\* case 'answer'
GRecvAnswer(u, from) ==
    /\ EnvCan(u, from, "answer")
    /\ envSent' = envSent + 1
    /\ LET i == MapGet(peerConnectionsRef[u], from)
       IN /\ IF i # 0 /\ CanSetRemoteAnswer(pcs[u][i])
             THEN pcs' = [pcs EXCEPT ![u][i].sig = "stable", ![u][i].hasRemote = TRUE]
             ELSE UNCHANGED pcs
          /\ hist' = IF MapHas(peerConnectionsRef[u], from) THEN hist
                     ELSE Note(u, "answerDropped")
    /\ UNCHANGED <<GFixed0, logText, tracks, show, sessions, callStatus, localStreamRef, stops,
                   tasks, hideTimers, bus, clicks, unmounted, peerConnectionsRef,
                   callStartTimeRef, participants, chatLog>>

\* case 'ice-candidate'
GRecvIceCandidate(u, from) ==
    /\ EnvCan(u, from, "ice-candidate")
    /\ envSent' = envSent + 1
    /\ LET i == MapGet(peerConnectionsRef[u], from)
       IN /\ IF i # 0 /\ pcs[u][i].open /\ pcs[u][i].hasRemote
             THEN pcs' = [pcs EXCEPT ![u][i].iceRecv = TRUE]
             ELSE UNCHANGED pcs
          /\ hist' = IF MapHas(peerConnectionsRef[u], from) THEN hist
                     ELSE Note(u, "iceDropped")
    /\ UNCHANGED <<GFixed0, logText, tracks, show, sessions, callStatus, localStreamRef, stops,
                   tasks, hideTimers, bus, clicks, unmounted, peerConnectionsRef,
                   callStartTimeRef, participants, chatLog>>

\* (faulty variant) every departure counts as the last one
NoMoreParticipantsEver(M) == TRUE

\* peerConnectionsRef.current.size === 0
NoMoreParticipants(M) == Len(M) = 0

\* case 'call-ended': close and delete the sender's link; endCall() when the
\* map is empty afterwards
GRecvCallEnded(u, from) ==
    /\ EnvCan(u, from, "call-ended")
    /\ envSent' = envSent + 1
    /\ participants' = IF Mounted(u) THEN [participants EXCEPT ![u] = @ \ {from}]
                       ELSE participants
    /\ LET i  == MapGet(peerConnectionsRef[u], from)
           P1 == ClosePc(pcs, u, i)
           M1 == MapDelete(peerConnectionsRef[u], from)
       IN IF NoMoreParticipants(M1)
          THEN /\ callStatus' = SetStatus(u, "ended")
               /\ GEndFrom(u, 0, bus, tasks, M1, P1)
          ELSE /\ pcs' = P1
               /\ peerConnectionsRef' = [peerConnectionsRef EXCEPT ![u] = M1]
               /\ UNCHANGED <<callStatus, bus, tasks, chatLog, logText, stops, hideTimers>>
    /\ UNCHANGED <<GFixed0, tracks, show, sessions, localStreamRef, hist, clicks, unmounted,
                   callStartTimeRef>>

\* the subscription callback on a row from member `from` with conversation
\* `conv` and marker `grp`: the two returns, then the switch on the type
GOnSignal(u, from, conv, grp) ==
    IF GAccepts(conv, grp)
    THEN \/ \E type \in {"call-request", "call-rejected"} : GRecvUnhandled(u, from, type)
         \/ GRecvCallAccepted(u, from)
         \/ GRecvOffer(u, from)
         \/ GRecvAnswer(u, from)
         \/ GRecvIceCandidate(u, from)
         \/ GRecvCallEnded(u, from)
    ELSE GRecvForeign(u, from, conv, grp)

\* ---------------------------------------------------------------- transport (group)
\* pc.onicecandidate with a candidate
GIceCandidate(u, i) ==
    /\ IsGroup /\ i \in 1..Len(pcs[u])
    /\ pcs[u][i].open /\ pcs[u][i].hasLocal
    /\ IceSum(AllPcs) < MaxIce /\ envSent < MaxEnv
    /\ envSent' = envSent + 1
    /\ pcs' = [pcs EXCEPT ![u][i].iceSent = @ + 1]
    /\ bus' = Publish(bus, Signal(User(u), pcs[u][i].target, "ice-candidate", TRUE))
    /\ UNCHANGED <<GFixed, tracks, show, sessions, callStatus, localStreamRef, stops, tasks,
                   hideTimers, hist, clicks, unmounted, peerConnectionsRef,
                   callStartTimeRef, participants, chatLog>>

\* pc.onconnectionstatechange with connectionState 'connected'
GTransportConnected(u, i) ==
    /\ IsGroup /\ i \in 1..Len(pcs[u])
    /\ Negotiated(pcs[u][i]) /\ pcs[u][i].conn = "new"
    /\ pcs' = [pcs EXCEPT ![u][i].conn = "connected"]
    /\ callStatus' = SetStatus(u, "connected")
    /\ callStartTimeRef' = [callStartTimeRef EXCEPT ![u] = TRUE]
    /\ hist' = Note(u, "transportConnected")
    /\ UNCHANGED <<GFixed, tracks, show, sessions, localStreamRef, stops, tasks, hideTimers,
                   bus, clicks, unmounted, peerConnectionsRef, participants,
                   chatLog, envSent>>

\* pc.onconnectionstatechange with any other state: no branch
GTransportFailed(u, i) ==
    /\ IsGroup /\ i \in 1..Len(pcs[u])
    /\ pcs[u][i].open /\ pcs[u][i].hasLocal /\ pcs[u][i].conn # "failed"
    /\ Cardinality(FailedPcs) < MaxFailures /\ envSent < MaxEnv
    /\ envSent' = envSent + 1
    /\ pcs' = [pcs EXCEPT ![u][i].conn = "failed"]
    /\ UNCHANGED <<GFixed, tracks, show, sessions, callStatus, localStreamRef, stops, tasks,
                   hideTimers, bus, hist, clicks, unmounted, peerConnectionsRef,
                   callStartTimeRef, participants, chatLog>>

\* ---------------------------------------------------------------- specification
Signals == BagToSet(bus)
Tasks   == BagToSet(tasks)

NextDirect ==
    \/ \E u \in Coords : OpenCall(u)
    \/ \E t \in Tasks, r \in {"A", "B", NoUser} : r # User(t.u) /\ StartLookupDone(t, r)
    \/ \E t \in Tasks, ok \in BOOLEAN : StartMediaDone(t, ok)
    \/ \E u \in Coords : AcceptCall(u)
    \/ \E t \in Tasks, ok \in BOOLEAN : AcceptMediaDone(t, ok)
    \/ \E u \in Coords : RejectCall(u)
    \/ \E t \in Tasks : RejectDone(t)
    \/ \E u \in Coords : EndCallClick(u)
    \/ \E t \in Tasks : EndCleanup(t)
    \/ \E u \in Coords : HideTimerFires(u)
    \/ \E m \in Signals : RecvCallRequest(m)
    \/ \E m \in Signals : DropSignal(m)
    \/ \E m \in Signals : RecvCallAccepted(m)
    \/ \E t \in Tasks : OfferReady(t)
    \/ \E m \in Signals : RecvCallRejected(m)
    \/ \E m \in Signals : RecvCallEnded(m)
    \/ \E m \in Signals : RecvOffer(m)
    \/ \E t \in Tasks : AnswerReady(t)
    \/ \E m \in Signals : RecvAnswer(m)
    \/ \E m \in Signals : RecvIceCandidate(m)
    \/ \E x \in AllPcs : IceCandidate(x[1], x[2])
    \/ \E x \in AllPcs : TransportConnected(x[1], x[2])
    \/ \E x \in AllPcs : TransportFailed(x[1], x[2])

NextGroup ==
    \/ GOpen(G)
    \/ \E t \in Tasks, ok \in BOOLEAN : GMediaDone(t, ok)
    \/ \E t \in Tasks : GStartMembersDone(t)
    \/ GAcceptCall(G)
    \/ \E t \in Tasks : GAcceptMembersDone(t)
    \/ GRejectCall(G)
    \/ \E t \in Tasks : GRejectDone(t)
    \/ GEndCallClick(G)
    \/ \E t \in Tasks : GEndLoopNext(t)
    \/ \E t \in Tasks : GEndLogDone(t)
    \/ GHideTimerFires(G)
    \/ GUnmount(G)
    \/ \E from \in Remotes, conv \in {Conv, "c2"}, grp \in BOOLEAN :
           GRecvForeign(G, from, conv, grp)
    \/ \E from \in Remotes, type \in {"call-request", "call-rejected"} :
           GRecvUnhandled(G, from, type)
    \/ \E from \in Remotes : GRecvCallAccepted(G, from)
    \/ \E t \in Tasks : GOfferReady(t)
    \/ \E from \in Remotes : GRecvOffer(G, from)
    \/ \E t \in Tasks : GAnswerReady(t)
    \/ \E from \in Remotes : GRecvAnswer(G, from)
    \/ \E from \in Remotes : GRecvIceCandidate(G, from)
    \/ \E from \in Remotes : GRecvCallEnded(G, from)
    \/ \E x \in AllPcs : GIceCandidate(x[1], x[2])
    \/ \E x \in AllPcs : GTransportConnected(x[1], x[2])
    \/ \E x \in AllPcs : GTransportFailed(x[1], x[2])

Next == NextDirect \/ NextGroup

InitDirect == Init /\ mode = "direct"
InitGroup  == Init /\ mode = "group"
InitParty  == mode = "party" /\ Constructed

\* both coordinators / the 1:1 coordinators alone / the group coordinator alone
Spec == Init /\ [][Next]_vars
SpecDirect == InitDirect /\ [][NextDirect]_vars
SpecGroup  == InitGroup /\ [][NextGroup]_vars

\* The 1:1 call nobody hangs up: the callee is found, both media acquisitions
\* succeed, the callee accepts, and no transport fails; the users may use the
\* camera and microphone buttons.
NextHappy ==
    \/ \E u \in Coords : OpenCall(u)
    \/ \E t \in Tasks : StartLookupDone(t, "B")
    \/ \E t \in Tasks : StartMediaDone(t, TRUE)
    \/ \E m \in Signals : RecvCallRequest(m)
    \/ \E u \in Coords : AcceptCall(u)
    \/ \E t \in Tasks : AcceptMediaDone(t, TRUE)
    \/ \E m \in Signals : RecvCallAccepted(m)
    \/ \E t \in Tasks : OfferReady(t)
    \/ \E m \in Signals : RecvOffer(m)
    \/ \E t \in Tasks : AnswerReady(t)
    \/ \E m \in Signals : RecvAnswer(m)
    \/ \E m \in Signals : RecvIceCandidate(m)
    \/ \E x \in AllPcs : IceCandidate(x[1], x[2])
    \/ \E x \in AllPcs : TransportConnected(x[1], x[2])
    \/ \E u \in Coords : ToggleVideo(u)
    \/ \E u \in Coords : ToggleAudio(u)

\* Every inserted row is delivered, every await returns, the callee clicks
\* accept and a negotiated transport connects: each step that stays possible
\* is eventually taken.
SpecHappy == InitDirect /\ [][NextHappy]_vars /\ WF_vars(NextHappy)

\* The group call nobody hangs up.
NextGroupCalm ==
    \/ GOpen(G)
    \/ \E t \in Tasks : GMediaDone(t, TRUE)
    \/ \E t \in Tasks : GStartMembersDone(t)
    \/ GAcceptCall(G)
    \/ \E t \in Tasks : GAcceptMembersDone(t)
    \/ \E from \in Remotes : GRecvCallAccepted(G, from)
    \/ \E t \in Tasks : GOfferReady(t)
    \/ \E from \in Remotes : GRecvOffer(G, from)
    \/ \E t \in Tasks : GAnswerReady(t)
    \/ \E from \in Remotes : GRecvAnswer(G, from)
    \/ \E x \in AllPcs : GTransportConnected(x[1], x[2])

\* Calls in progress with the camera and microphone buttons in use.
NextToggle ==
    \/ NextHappy
    \/ NextGroupCalm
    \/ GToggleVideo(G)
    \/ GToggleAudio(G)

SpecToggle == Init /\ [][NextToggle]_vars

\* A group call whose members follow the protocol.
NextParty ==
    \/ GOpen(G)
    \/ \E t \in Tasks : GMediaDone(t, TRUE)
    \/ \E t \in Tasks : GStartMembersDone(t)
    \/ \E from \in Remotes : GRecvCallAccepted(G, from)
    \/ \E t \in Tasks : GOfferReady(t)
    \/ \E from \in Remotes : GRecvAnswer(G, from)
    \/ \E x \in AllPcs : GTransportConnected(x[1], x[2])
    \/ \E from \in Remotes : GRecvCallEnded(G, from)
    \/ GEndCallClick(G)
    \/ \E t \in Tasks : GEndLoopNext(t)
    \/ \E t \in Tasks : GEndLogDone(t)
    \/ GHideTimerFires(G)
    \/ GUnmount(G)

SpecParty == InitParty /\ [][NextParty]_vars

\* The same, with every started insert into messages returning.
SpecPartyFair == SpecParty /\ WF_vars(\E t \in Tasks : GEndLogDone(t))

\* acceptCall of the coordinator of another rung member: its call-accepted
\* goes to the caller, and to nobody else
MemberAccepts(m) ==
    /\ mode = "guest" /\ m \in Remotes \ {callerId[G]}
    /\ ~BagIn(Signal(m, callerId[G], "call-accepted", TRUE), bus)
    /\ bus' = Publish(bus, Signal(m, callerId[G], "call-accepted", TRUE))
    /\ UNCHANGED <<GFixed, tracks, show, sessions, callStatus, localStreamRef, stops, pcs,
                   tasks, hideTimers, hist, clicks, unmounted, envSent,
                   peerConnectionsRef, callStartTimeRef, participants, chatLog>>

\* A group call in which every rung member accepts and nobody hangs up,
\* seen from a rung member.
NextGuest ==
    \/ GOpen(G)
    \/ GAcceptCall(G)
    \/ \E t \in Tasks : GMediaDone(t, TRUE)
    \/ \E t \in Tasks : GAcceptMembersDone(t)
    \/ \E m \in Remotes : MemberAccepts(m)
    \/ \E from \in Remotes : GRecvOffer(G, from)
    \/ \E t \in Tasks : GAnswerReady(t)
    \/ \E x \in AllPcs : GTransportConnected(x[1], x[2])
    \/ GToggleVideo(G)
    \/ GToggleAudio(G)

InitGuest == mode = "guest" /\ Constructed

\* Every inserted row is delivered, every await returns, every member clicks
\* accept and a negotiated transport connects.
SpecGuest == InitGuest /\ [][NextGuest]_vars /\ WF_vars(NextGuest)

\* the clock readings the calls are ended at, in milliseconds since the
\* start time was taken
Elapses == {999, 1000, 59999, 60000, 61001, 3599999, 3600000}

\* time passes: new Date().getTime() - callStartTimeRef.current.getTime() grows
TimePasses(u, n) ==
    /\ IsGroup /\ u = G /\ callStartTimeRef[u]
    /\ n > elapsed[u]
    /\ elapsed' = [elapsed EXCEPT ![u] = n]
    /\ UNCHANGED <<mode, isIncoming, callerId, dvars, mvars, logText, tracks, show, sessions,
                   callStatus, localStreamRef, stops, pcs, tasks, hideTimers, bus, hist,
                   clicks, unmounted, envSent, peerConnectionsRef, callStartTimeRef,
                   participants, chatLog>>

\* A group call whose members accept and stay, ended by its caller at some
\* moment after it connected.
NextClock ==
    \/ GOpen(G)
    \/ \E t \in Tasks : GMediaDone(t, TRUE)
    \/ \E t \in Tasks : GStartMembersDone(t)
    \/ \E from \in Remotes : GRecvCallAccepted(G, from)
    \/ \E t \in Tasks : GOfferReady(t)
    \/ \E from \in Remotes : GRecvAnswer(G, from)
    \/ \E x \in AllPcs : GTransportConnected(x[1], x[2])
    \/ \E n \in Elapses : TimePasses(G, n)
    \/ GEndCallClick(G)
    \/ \E t \in Tasks : GEndLoopNext(t)
    \/ \E t \in Tasks : GEndLogDone(t)
    \/ GHideTimerFires(G)

SpecClock == InitParty /\ [][NextClock]_vars

\* Calls in which the insert of a call-request may fail: the 1:1 caller and
\* callee, or the group caller with members that follow the protocol.
NextLossy ==
    \/ \E u \in Coords : OpenCall(u)
    \/ \E t \in Tasks : StartLookupDone(t, "B")
    \/ \E t \in Tasks, ins \in BOOLEAN : StartMediaDoneIns(t, TRUE, ins)
    \/ \E m \in Signals : RecvCallRequest(m)
    \/ \E u \in Coords : AcceptCall(u)
    \/ \E t \in Tasks : AcceptMediaDone(t, TRUE)
    \/ \E m \in Signals : RecvCallAccepted(m)
    \/ \E t \in Tasks : OfferReady(t)
    \/ \E m \in Signals : RecvOffer(m)
    \/ \E t \in Tasks : AnswerReady(t)
    \/ \E m \in Signals : RecvAnswer(m)
    \/ \E x \in AllPcs : TransportConnected(x[1], x[2])
    \/ \E u \in Coords : EndCallClick(u)
    \/ \E t \in Tasks : EndCleanup(t)
    \/ \E m \in Signals : RecvCallEnded(m)
    \/ \E u \in Coords : HideTimerFires(u)
    \/ GOpen(G)
    \/ \E t \in Tasks : GMediaDone(t, TRUE)
    \/ \E t \in Tasks, sent \in SUBSET Remotes : GStartMembersDoneIns(t, sent)
    \/ \E from \in Remotes : GRecvCallAccepted(G, from)
    \/ \E t \in Tasks : GOfferReady(t)
    \/ \E from \in Remotes : GRecvAnswer(G, from)
    \/ \E x \in AllPcs : GTransportConnected(x[1], x[2])
    \/ GEndCallClick(G)
    \/ \E t \in Tasks : GEndLoopNext(t)
    \/ \E t \in Tasks : GEndLogDone(t)
    \/ GHideTimerFires(G)

InitLossy == mode \in {"direct", "party"} /\ Constructed

SpecLossy == InitLossy /\ [][NextLossy]_vars

\* Calls between members that follow the protocol in which the end button (or
\* Escape, which the modal hands to endCall) may be used MaxHangups times.
NextHangups ==
    \/ \E u \in Coords : OpenCall(u)
    \/ \E t \in Tasks : StartLookupDone(t, "B")
    \/ \E t \in Tasks : StartMediaDone(t, TRUE)
    \/ \E m \in Signals : RecvCallRequest(m)
    \/ \E u \in Coords : AcceptCall(u)
    \/ \E t \in Tasks : AcceptMediaDone(t, TRUE)
    \/ \E m \in Signals : RecvCallAccepted(m)
    \/ \E t \in Tasks : OfferReady(t)
    \/ \E m \in Signals : RecvOffer(m)
    \/ \E t \in Tasks : AnswerReady(t)
    \/ \E m \in Signals : RecvAnswer(m)
    \/ \E x \in AllPcs : TransportConnected(x[1], x[2])
    \/ \E u \in Coords : EndCallClickUpTo(u, MaxHangups)
    \/ \E t \in Tasks : EndCleanup(t)
    \/ \E m \in Signals : RecvCallEnded(m)
    \/ \E m \in Signals : DropSignal(m)
    \/ \E u \in Coords : HideTimerFires(u)
    \/ GOpen(G)
    \/ \E t \in Tasks : GMediaDone(t, TRUE)
    \/ \E t \in Tasks : GStartMembersDone(t)
    \/ \E from \in Remotes : GRecvCallAccepted(G, from)
    \/ \E t \in Tasks : GOfferReady(t)
    \/ \E from \in Remotes : GRecvAnswer(G, from)
    \/ \E from \in Remotes : GRecvCallEnded(G, from)
    \/ GEndCallClickUpTo(G, MaxHangups)
    \/ \E t \in Tasks : GEndLoopNext(t)
    \/ GHideTimerFires(G)

SpecHangups == InitLossy /\ [][NextHangups]_vars

\* The group caller and members that follow the protocol, each of which
\* accepts or rejects the call-request it got.
NextDeclined ==
    \/ GOpen(G)
    \/ \E t \in Tasks : GMediaDone(t, TRUE)
    \/ \E t \in Tasks : GStartMembersDone(t)
    \/ \E from \in Remotes : GRecvUnhandled(G, from, "call-rejected")
    \/ \E from \in Remotes : GRecvCallAccepted(G, from)
    \/ \E t \in Tasks : GOfferReady(t)
    \/ \E from \in Remotes : GRecvAnswer(G, from)
    \/ GEndCallClick(G)
    \/ \E t \in Tasks : GEndLoopNext(t)
    \/ GHideTimerFires(G)

SpecDeclined == InitParty /\ [][NextDeclined]_vars

\* startGroupCall of another component of user "A", in a conversation that
\* "B" is a member of: its loop publishes a marked call-request per member
GroupCallerRings ==
    /\ mode = "direct" /\ envSent < MaxEnv
    /\ envSent' = envSent + 1
    /\ bus' = bus (+) CallRequests("A", Members)
    /\ UNCHANGED <<GFixed, tracks, show, sessions, callStatus, localStreamRef, stops, pcs,
                   tasks, hideTimers, hist, clicks, unmounted,
                   peerConnectionsRef, callStartTimeRef, participants, chatLog>>

\* startCall of user "C" in the conversation it shares with "B": a
\* call-request to "B" from another sender, of another conversation
StrangerRings ==
    /\ mode = "direct" /\ envSent < MaxEnv
    /\ envSent' = envSent + 1
    /\ bus' = Publish(bus, [Signal("C", "B", "call-request", FALSE) EXCEPT !.conv = "c2"])
    /\ UNCHANGED <<GFixed, tracks, show, sessions, callStatus, localStreamRef, stops, pcs,
                   tasks, hideTimers, hist, clicks, unmounted,
                   peerConnectionsRef, callStartTimeRef, participants, chatLog>>

\* A 1:1 call of "A" to "B" during which "C" rings "B" as well.
NextIntruder ==
    \/ \E u \in Coords : OpenCall(u)
    \/ \E t \in Tasks : StartLookupDone(t, "B")
    \/ \E t \in Tasks : StartMediaDone(t, TRUE)
    \/ StrangerRings
    \/ \E m \in Signals : RecvCallRequest(m)
    \/ \E m \in Signals : DropSignal(m)
    \/ \E u \in Coords : AcceptCall(u)
    \/ \E t \in Tasks : AcceptMediaDone(t, TRUE)
    \/ \E m \in Signals : RecvCallAccepted(m)
    \/ \E t \in Tasks : OfferReady(t)
    \/ \E m \in Signals : RecvOffer(m)
    \/ \E t \in Tasks : AnswerReady(t)
    \/ \E m \in Signals : RecvAnswer(m)
    \/ \E x \in AllPcs : TransportConnected(x[1], x[2])

SpecIntruder == InitDirect /\ [][NextIntruder]_vars

\* A member of a group that is being rung, running the 1:1 components.
NextRung ==
    \/ GroupCallerRings
    \/ \E m \in Signals : RecvCallRequest(m)
    \/ \E m \in Signals : DropSignal(m)
    \/ \E u \in Coords : AcceptCall(u)
    \/ \E t \in Tasks, ok \in BOOLEAN : AcceptMediaDone(t, ok)
    \/ \E u \in Coords : RejectCall(u)
    \/ \E t \in Tasks : RejectDone(t)
    \/ \E u \in Coords : EndCallClick(u)
    \/ \E t \in Tasks : EndCleanup(t)
    \/ \E u \in Coords : HideTimerFires(u)

SpecRung == InitDirect /\ [][NextRung]_vars

TypeOK ==
    /\ \A u \in Coords : callStatus[u] \in {"idle", "calling", "ringing", "connected", "ended"}
    /\ \A u \in Coords : localStreamRef[u] \in 0..Len(stops[u])
    /\ \A u \in Coords : peerConnectionRef[u] \in 0..Len(pcs[u])

\* ================================================================ properties
Caller == <<"A", 1>>

\* streams acquired and never stopped / links created and never closed
Live(u)      == {h \in 1..Len(stops[u]) : stops[u][h] = 0}
OpenLinks(u) == {i \in 1..Len(pcs[u]) : pcs[u][i].open}

\* the UI of u was opened and has closed again
Closed(u) == sessions[u] > 0 /\ ~show[u]

\* the links the group coordinator holds for its participants
Held(u) == MapPcs(peerConnectionsRef[u])

\* ---------------------------------------------------------------- C1
\* C1, as the spec states it: in both coordinators callStatus is 'connected'
\* only if a Peer Link of the coordinator has already reported the transport
\* state 'connected'.
C1_ConnectedOnlyAfterTransport ==
    \A u \in Coords :
        callStatus[u] = "connected" => "transportConnected" \in hist[u]

\* what can have set callStatus to 'connected'
ConnectedCauses ==
    IF IsGroup THEN {"transportConnected", "accept"}
    ELSE {"transportConnected", "accept", "gotAccepted"}

\* C1, amended: callStatus is 'connected' only if a Peer Link of the
\* coordinator has reported the transport state 'connected', or the local user
\* has accepted the incoming call (acceptCall sets it before any link exists),
\* or, in the 1:1 coordinator, a call-accepted signal has been received.
C1_ConnectedHasCause ==
    \A u \in Coords :
        callStatus[u] = "connected" => hist[u] \cap ConnectedCauses # {}

\* a caller of a group call shows 'connected' after a link reported it
C1_Witness ==
    /\ IsGroup /\ ~isIncoming[G]
    /\ callStatus[G] = "connected"
    /\ \E i \in 1..Len(pcs[G]) : pcs[G][i].conn = "connected"

\* ---------------------------------------------------------------- C2
Rank(st) ==
    CASE st = "idle" -> 0
      [] st \in {"calling", "ringing"} -> 1
      [] st = "connected" -> 2
      [] st = "ended" -> 3

\* C2: while a session lasts (the UI stays open) callStatus only moves forward
\* along idle -> calling|ringing -> connected -> ended; in particular nothing
\* takes it out of 'ended'.
C2_StatusOnlyForward ==
    [][\A u \in Coords :
          (show[u] /\ show'[u]) =>
              /\ Rank(callStatus'[u]) >= Rank(callStatus[u])
              /\ callStatus[u] = "ended" => callStatus'[u] = "ended"]_vars

\* ---------------------------------------------------------------- C3
\* C3: whatever signals arrive, the group coordinator holds at most one
\* ParticipantLink per participant id: no two entries of
\* peerConnectionsRef.current have the same id.
C3_OneLinkPerParticipant ==
    \A u \in Coords :
        \A k1, k2 \in 1..Len(peerConnectionsRef[u]) :
            peerConnectionsRef[u][k1].id = peerConnectionsRef[u][k2].id => k1 = k2

\* a second link was created for a participant that had one, and the
\* coordinator holds the entry of the second
C3_Witness ==
    \E i, j \in 1..Len(pcs[G]) :
        /\ i < j /\ pcs[G][i].target = pcs[G][j].target
        /\ Len(peerConnectionsRef[G]) = 1
        /\ LinkOf(G, pcs[G][j].target) = j

\* ---------------------------------------------------------------- C4
\* C4: ending a call releases the local media exactly once: no stream is
\* stopped twice, and once the UI has closed every stream acquired has been
\* stopped.
C4_ReleasedExactlyOnce ==
    \A u \in Coords : \A h \in 1..Len(stops[u]) :
        /\ stops[u][h] <= 1
        /\ Closed(u) => stops[u][h] = 1

\* ---------------------------------------------------------------- C5
\* C5: once the UI of a coordinator has closed, it holds no stream that was
\* acquired and not released and no open Peer Link, in every interleaving.
C5_NothingHeldAfterClose ==
    \A u \in Coords : Closed(u) => Live(u) = {} /\ OpenLinks(u) = {}

\* ---------------------------------------------------------------- C6
\* C6: after the local user has ended the call, when the grace timer invokes
\* onHide every Peer Link is closed and the media is released.
C6_CleanBeforeOnHide ==
    [][\A u \in Coords :
          ("userEnd" \in hist[u] /\ hideTimers'[u] < hideTimers[u]) =>
              Live(u) = {} /\ OpenLinks(u) = {}]_vars

\* ---------------------------------------------------------------- C7
\* the group coordinator is connected and holds open links to all three members
ThreeLinks ==
    /\ callStatus[G] = "connected"
    /\ MapKeys(peerConnectionsRef[G]) = Remotes
    /\ Held(G) \subseteq OpenLinks(G)

\* C7: in a group call with open links to three members, a call-ended from
\* one of them closes and removes exactly that member's link: the other two
\* stay held and open, callStatus stays 'connected', and the local media is
\* not released.
C7_MemberLeaves ==
    [][\A from \in Remotes :
          (ThreeLinks /\ GRecvCallEnded(G, from)) =>
              /\ MapKeys(peerConnectionsRef'[G]) = Remotes \ {from}
              /\ \A id \in Remotes \ {from} :
                     /\ MapGet(peerConnectionsRef'[G], id) = LinkOf(G, id)
                     /\ pcs'[G][LinkOf(G, id)].open
              /\ ~pcs'[G][LinkOf(G, from)].open
              /\ Cardinality(MapPcs(peerConnectionsRef'[G])) = 2
              /\ callStatus'[G] = "connected"
              /\ stops' = stops /\ localStreamRef' = localStreamRef]_vars

\* "B" has left a connected call of four: its link is closed, the links to
\* "C" and "D" are held and open, the stream is live
C7_Witness ==
    /\ mode = "party" /\ callStatus[G] = "connected"
    /\ MapKeys(peerConnectionsRef[G]) = {"C", "D"}
    /\ Held(G) \subseteq OpenLinks(G)
    /\ \E i \in 1..Len(pcs[G]) :
           pcs[G][i].target = "B" /\ ~pcs[G][i].open /\ pcs[G][i].conn = "connected"
    /\ "B" \notin participants[G]
    /\ Live(G) = {localStreamRef[G]}

\* ---------------------------------------------------------------- C8
\* both ends have exchanged offer and answer and show 'connected'
BothConnected ==
    \E b \in Instances("B") :
        /\ callStatus[Caller] = "connected" /\ callStatus[b] = "connected"
        /\ peerConnectionRef[Caller] # 0 /\ peerConnectionRef[b] # 0
        /\ Negotiated(pcs[Caller][peerConnectionRef[Caller]])
        /\ Negotiated(pcs[b][peerConnectionRef[b]])
        /\ pcs[Caller][peerConnectionRef[Caller]].conn = "connected"
        /\ pcs[b][peerConnectionRef[b]].conn = "connected"

\* C8: when "A" calls "B", "B" accepts, media succeeds on both sides, every
\* signal is delivered and the transport is reachable, the exchange
\* call-request, call-accepted, offer, answer completes and from some point on
\* both coordinators show 'connected'.
C8_HappyPathConnects == <>[]BothConnected

C8_Witness == BothConnected /\ bus = EmptyBag /\ tasks = EmptyBag

\* ---------------------------------------------------------------- C9
\* C9: when "A" calls "B" and "B" rejects, "A" shows 'ended' as soon as it
\* handles call-rejected; unless "B" accepted, "A" never creates a Peer Link;
\* and when the UI of "A" closes after the rejection, the stream "A" acquired
\* at startCall is stopped.
C9_Rejected ==
    /\ [][(\E m \in Signals : m.to = "A" /\ RecvCallRejected(m)) =>
              callStatus'[Caller] = "ended"]_vars
    /\ []((\A b \in Instances("B") : "accept" \notin hist[b]) => pcs[Caller] = <<>>)
    /\ [][("gotRejected" \in hist[Caller] /\ show[Caller] /\ ~show'[Caller]) =>
              /\ localStreamRef[Caller] # 0
              /\ stops'[Caller][localStreamRef[Caller]] >= 1]_vars

\* the call of "A" was rejected and its UI has closed: no link, stream stopped
C9_Witness ==
    /\ mode = "direct" /\ "gotRejected" \in hist[Caller] /\ Closed(Caller)
    /\ pcs[Caller] = <<>>
    /\ stops[Caller] = <<1>>

\* ---------------------------------------------------------------- C10
\* a click on the camera or the microphone button of u
Toggled(u) == toggles'[u] = toggles[u] + 1

\* C10: toggling video or audio while 'connected' changes the enabled flag of
\* the local track and nothing else: callStatus, the Peer Links and the held
\* links are unchanged, no signal is published and nothing is started.
C10_ToggleFrame ==
    [][\A u \in Coords :
          (callStatus[u] = "connected" /\ Toggled(u)) =>
              /\ callStatus' = callStatus
              /\ pcs' = pcs
              /\ peerConnectionRef' = peerConnectionRef
              /\ peerConnectionsRef' = peerConnectionsRef
              /\ bus' = bus /\ tasks' = tasks
              /\ stops' = stops /\ localStreamRef' = localStreamRef
              /\ \A k \in {"video", "audio"} :
                     tracks'[u][k] # tracks[u][k] =>
                         {tracks[u][k], tracks'[u][k]} = {"on", "off"}]_vars

\* a connected call with an open link whose camera was switched off and whose
\* microphone was not touched
C10_Witness ==
    /\ callStatus[Caller] = "connected" /\ OpenLinks(Caller) # {}
    /\ tracks[Caller] = [video |-> "off", audio |-> "on"]
    /\ ~isVideoEnabled[Caller] /\ isAudioEnabled[Caller]

\* ---------------------------------------------------------------- C11
\* status and live links of u are as they were: every open link is still open,
\* and the link the coordinator holds (1:1) / the held links (group) are the same
Untouched(u) ==
    /\ callStatus'[u] = callStatus[u]
    /\ \A i \in OpenLinks(u) : pcs'[u][i].open
    /\ peerConnectionRef[u] \in OpenLinks(u) => peerConnectionRef'[u] = peerConnectionRef[u]
    /\ \A k \in 1..Len(peerConnectionsRef[u]) :
           peerConnectionsRef[u][k].pc \in OpenLinks(u) =>
               MapGet(peerConnectionsRef'[u], peerConnectionsRef[u][k].id)
                   = peerConnectionsRef[u][k].pc

\* a signal the 1:1 transition table does not allow in the state of its
\* receiver: call-accepted when the receiver is not 'calling', an answer when
\* no offer of the receiver is outstanding, an offer after an offer
OutOfOrder(m) ==
    LET u == At(m.to)
        i == peerConnectionRef[u]
    IN \/ RecvCallAccepted(m) /\ callStatus[u] # "calling"
       \/ RecvAnswer(m) /\ (i = 0 \/ pcs[u][i].sig # "have-local-offer")
       \/ RecvOffer(m) /\ i # 0 /\ pcs[u][i].hasRemote

\* the same for the group coordinator: call-accepted from a member it did not
\* ring or is already linked to, an answer when no offer to the member is
\* outstanding, an offer after an offer
GOutOfOrder(from) ==
    LET i == LinkOf(G, from)
    IN \/ GRecvCallAccepted(G, from) /\ (isIncoming[G] \/ i # 0)
       \/ GRecvAnswer(G, from) /\ (i = 0 \/ pcs[G][i].sig # "have-local-offer")
       \/ GRecvOffer(G, from) /\ i # 0 /\ pcs[G][i].hasRemote

\* C11: an out-of-order signal (an answer with no prior offer, a second offer,
\* a call-accepted when no call-request is outstanding) leaves callStatus
\* unchanged and neither closes nor replaces a live Peer Link, in either
\* coordinator.
C11_OutOfOrderIgnored ==
    [][/\ \A m \in Signals : OutOfOrder(m) => Untouched(At(m.to))
       /\ \A from \in Remotes : GOutOfOrder(from) => Untouched(G)]_vars

\* ---------------------------------------------------------------- C12
\* C12: when media acquisition fails in startCall or acceptCall of either
\* coordinator, the attempt stops there: the step publishes nothing, creates
\* no Peer Link, stores no stream, and leaves no continuation behind.
C12_MediaFailureAborts ==
    [][\A t \in Tasks :
          (StartMediaDone(t, FALSE) \/ AcceptMediaDone(t, FALSE) \/ GMediaDone(t, FALSE)) =>
              /\ bus' = bus /\ pcs' = pcs
              /\ peerConnectionsRef' = peerConnectionsRef
              /\ localStreamRef' = localStreamRef
              /\ tasks' = tasks (-) One(t)]_vars

\* startCall of "A" has failed to get media: 'calling' with nothing pending,
\* nothing published, no stream and no link
C12_Witness ==
    /\ mode = "direct" /\ show[Caller] /\ callStatus[Caller] = "calling"
    /\ tasks = EmptyBag /\ bus = EmptyBag
    /\ localStreamRef[Caller] = 0 /\ pcs[Caller] = <<>>

\* ---------------------------------------------------------------- C13
\* rows of a type that the step adds to the table
Published(type) ==
    {m \in BagToSet(bus') : m.type = type /\ CopiesIn(m, bus') > CopiesIn(m, bus)}

C14_GroupMarker ==
    [][mode = "group" =>
        /\ \A m \in BagToSet(bus') :
              CopiesIn(m, bus') > CopiesIn(m, bus) =>
                  /\ m.grp /\ m.conv = Conv /\ m.from = User(G)
                  /\ m.type \in {"call-request", "call-accepted", "call-rejected",
                                 "call-ended", "offer", "answer", "ice-candidate"}
        /\ \A from \in Remotes, conv \in {Conv, "c2"}, grp \in BOOLEAN :
              (conv # Conv \/ ~grp) /\ GOnSignal(G, from, conv, grp) =>
                  UNCHANGED <<callStatus, pcs, peerConnectionsRef, localStreamRef, stops,
                              tracks, bus, tasks, participants, hideTimers, chatLog,
                              show, callStartTimeRef>>]_vars

\* the caller has rung the members, has returned on a row it does not accept,
\* and has published the offer of a link
C14_Witness ==
    /\ mode = "group" /\ ~isIncoming[G] /\ "returned" \in hist[G]
    /\ \E m \in Signals : m.type = "call-request" /\ m.grp
    /\ \E m \in Signals : m.type = "offer" /\ m.grp

\* ---------------------------------------------------------------- C15
\* C15: the 1:1 components do not act on a row that carries the group marker:
\* receiving one changes no status, opens no session (in particular a marked
\* call-request opens no ringing session), creates or modifies no link, and
\* publishes nothing.
C15_GroupRowsIgnored ==
    [][\A m \in Signals :
          /\ m.grp
          /\ \/ RecvCallRequest(m) \/ RecvCallAccepted(m) \/ RecvCallRejected(m)
             \/ RecvCallEnded(m) \/ RecvOffer(m) \/ RecvAnswer(m) \/ RecvIceCandidate(m)
          => /\ UNCHANGED <<callStatus, show, callerId, pcs, peerConnectionRef, tasks>>
             /\ bus' = bus (-) One(m)]_vars

\* ---------------------------------------------------------------- C16
\* the coordinator holds an open link to member m
LinkedTo(u, m) == LinkOf(u, m) # 0 /\ pcs[u][LinkOf(u, m)].open

\* every rung member has accepted
AllAccepted ==
    /\ "accept" \in hist[G]
    /\ \A m \in Remotes \ {callerId[G]} :
          BagIn(Signal(m, callerId[G], "call-accepted", TRUE), bus)

\* C16: group calls form a full mesh: once every rung member has accepted,
\* with every row delivered and every transport reachable, a member
\* eventually holds a direct link to every other member, the other accepting
\* members included.
C16_FullMesh == AllAccepted ~> \A m \in Remotes : LinkedTo(G, m)

\* ---------------------------------------------------------------- C17
\* C17: a rung recipient needs an explicit accept: as long as the user of an
\* incoming coordinator (1:1 or group) has not clicked accept, the coordinator
\* has created no link and has published no call-accepted, offer or answer,
\* whatever rows were delivered to it.
C17_NoLinkBeforeAccept ==
    \A u \in Coords :
        isIncoming[u] /\ "accept" \notin hist[u] =>
            /\ pcs[u] = <<>>
            /\ \A m \in Signals :
                  m.from = User(u) => m.type \notin {"call-accepted", "offer", "answer"}

\* ---------------------------------------------------------------- C18
\* C18: every open link belongs to a session whose media is acquired and not
\* released: whenever a coordinator has an open link, its localStreamRef holds
\* a stream and the tracks of that stream were not stopped.
C18_LinkHasMedia ==
    \A u \in Coords :
        OpenLinks(u) # {} => localStreamRef[u] # 0 /\ localStreamRef[u] \in Live(u)

\* ---------------------------------------------------------------- C19
\* the participants the coordinator knows of: the members it rang, the
\* members it holds a link to, and the caller that rang it
Known(u) ==
    {m \in Remotes : \/ BagIn(Signal(User(u), m, "call-request", TRUE), bus)
                     \/ MapHas(peerConnectionsRef[u], m)
                     \/ m = callerId[u]}

\* C19: a local endCall of the group coordinator publishes call-ended to every
\* known participant, whether or not a link to it exists: when the user ends
\* the call, each known participant either gets its call-ended row in that
\* step or is still ahead in the loop that publishes them.
C19_EndNotifiesAll ==
    [][GEndCallClick(G) =>
          \A m \in Known(G) :
             \/ CopiesIn(Signal(User(G), m, "call-ended", TRUE), bus')
                   > CopiesIn(Signal(User(G), m, "call-ended", TRUE), bus)
             \/ \E t \in BagToSet(tasks') :
                   /\ t.kind = "gEndLoop" /\ MapHas(peerConnectionsRef'[G], m)
                   /\ \E k \in 1..Len(peerConnectionsRef'[G]) :
                         /\ peerConnectionsRef'[G][k].id = m
                         /\ peerConnectionsRef'[G][k].first > t.pc]_vars

\* ---------------------------------------------------------------- C20
\* the tracks of the stream the coordinator acquired were stopped
Released(u) == localStreamRef[u] # 0 /\ localStreamRef[u] \notin Live(u)

\* endCall is waiting for its insert into messages
Logging(u) == \E t \in Tasks : t.u = u /\ t.kind = "gEndLog"

\* C20: when a call-ended from a member removes that member's link from the
\* group coordinator and no link is left, the session becomes 'ended' and the
\* local media is released (at once, or after the call is logged to the
\* chat); when another link is left, the session does not end: status, media
\* and the remaining links stay as they are.
C20_LastLeaverEnds ==
    /\ [][\A from \in Remotes :
            GRecvCallEnded(G, from) /\ LinkOf(G, from) # 0 =>
                IF MapKeys(peerConnectionsRef[G]) = {from}
                THEN /\ callStatus'[G] = "ended"
                     /\ Released(G)' \/ Logging(G)'
                ELSE /\ callStatus' = callStatus /\ stops' = stops
                     /\ tasks' = tasks /\ hideTimers' = hideTimers /\ bus' = bus
                     /\ MapKeys(peerConnectionsRef'[G])
                            = MapKeys(peerConnectionsRef[G]) \ {from}
                     /\ \A id \in MapKeys(peerConnectionsRef'[G]) :
                            /\ LinkOf(G, id)' = LinkOf(G, id)
                            /\ pcs'[G][LinkOf(G, id)].open = pcs[G][LinkOf(G, id)].open]_vars
    /\ Logging(G) ~> Released(G)

\* two members have left one after the other: the first departure left the
\* call running, the second ended it and the media was released
C20_Witness ==
    /\ mode = "party" /\ callStatus[G] = "ended" /\ "userEnd" \notin hist[G]
    /\ Released(G) /\ peerConnectionsRef[G] = <<>>
    /\ Cardinality({i \in 1..Len(pcs[G]) : ~pcs[G][i].open /\ pcs[G][i].hasRemote}) >= 2

\* ---------------------------------------------------------------- C21
\* C21: the duration entry of a group call is appended to the chat at most once
\* per call session, however many times endCall runs for that session: the
\* coordinator has never inserted more entries than it has had sessions.
C21_LoggedOncePerSession ==
    \A u \in Coords : chatLog[u] <= sessions[u]

\* ---------------------------------------------------------------- C22
\* C22: in a group call the start time is set only when a link reports the
\* transport state 'connected', never before; so a duration entry is appended
\* only if some link of the coordinator reached 'connected'.
C22_StartedAtOnConnected ==
    \A u \in Coords :
        /\ callStartTimeRef[u] => "transportConnected" \in hist[u]
        /\ chatLog[u] > 0 => "transportConnected" \in hist[u]

\* ---------------------------------------------------------------- C23
\* the numbers written in a duration message: minutes (0 in the seconds-only
\* form) and seconds
MinutesOf(text) == IF Len(text) = 4 THEN text[1] ELSE 0
SecondsOf(text) == IF Len(text) = 4 THEN text[3] ELSE text[1]

\* C23: the duration message written at the end of a group call, for an
\* elapsed time of d whole seconds: its minutes and seconds are d div 60 and
\* d mod 60 (minutes * 60 + seconds = d, 0 <= seconds < 60); it has the
\* seconds-only form exactly when d < 60 and the minutes-and-seconds form
\* exactly when d >= 60.
C23_DurationText ==
    [][\A u \in Coords :
          chatLog'[u] # chatLog[u] =>
              LET d    == elapsed[u] \div 1000
                  text == logText'[u]
              IN /\ Len(text) \in {2, 4}
                 /\ Len(text) = 2 <=> d < 60
                 /\ Len(text) = 4 <=> d >= 60
                 /\ Len(text) = 2 => text[2] = "giay"
                 /\ Len(text) = 4 => text[2] = "phut" /\ text[4] = "giay"
                 /\ MinutesOf(text) * 60 + SecondsOf(text) = d
                 /\ SecondsOf(text) >= 0 /\ SecondsOf(text) < 60
                 /\ MinutesOf(text) = d \div 60 /\ SecondsOf(text) = d % 60]_vars

\* a call ended a little over a minute after it started, and one ended just
\* before a minute was over
C23_Witness ==
    /\ chatLog[G] > 0
    /\ \/ elapsed[G] = 61001 /\ logText[G] = <<1, "phut", 1, "giay">>
       \/ elapsed[G] = 59999 /\ logText[G] = <<59, "giay">>

\* ---------------------------------------------------------------- C24
\* C24: in a 1:1 call a link whose transport becomes 'disconnected' or
\* 'failed' takes the path of a local endCall: the status becomes 'ended', a
\* call-ended row is published to the remote participant the coordinator
\* knows, and the cleanup (close the link, stop the tracks, schedule onHide)
\* is done in that step or left pending behind the insert.
C24_TransportFailureEnds ==
    [][\A x \in AllPcs :
          TransportFailed(x[1], x[2]) =>
              LET u == x[1]
                  row == Signal(User(u), remoteUserId[u], "call-ended", FALSE)
              IN /\ callStatus'[u] = "ended"
                 /\ IF remoteUserId[u] # NoUser
                    THEN /\ CopiesIn(row, bus') = CopiesIn(row, bus) + 1
                         /\ \E t \in BagToSet(tasks') : t.u = u /\ t.kind = "endCall"
                    ELSE /\ bus' = bus
                         /\ hideTimers'[u] = hideTimers[u] + 1
                         /\ OpenLinks(u)' = OpenLinks(u) \ {peerConnectionRef[u]}]_vars

\* ---------------------------------------------------------------- C25
\* C25: in a group call, when the transport of the link to a participant
\* becomes 'disconnected' or 'failed', the coordinator removes the
\* participant: the link is closed and its entry leaves the map.
C25_FailedLinkRemoved ==
    [][\A x \in AllPcs :
          GTransportFailed(x[1], x[2]) /\ MapGet(peerConnectionsRef[x[1]], pcs[x[1]][x[2]].target) = x[2] =>
              /\ ~pcs'[x[1]][x[2]].open
              /\ ~MapHas(peerConnectionsRef'[x[1]], pcs[x[1]][x[2]].target)]_vars

\* ---------------------------------------------------------------- C26
\* C26: in a 1:1 call a link whose transport becomes 'connected' sets the
\* status of its coordinator to 'connected', whatever the status was before.
C26_ConnectedForcesStatus ==
    [][\A x \in AllPcs :
          TransportConnected(x[1], x[2]) /\ Mounted(x[1]) =>
              callStatus'[x[1]] = "connected"]_vars

\* the callee ended the call and the transport of its link connected
\* afterwards: the status is 'connected' again
C26_Witness ==
    \E b \in Instances("B") :
        /\ mode = "direct" /\ show[b] /\ callStatus[b] = "connected"
        /\ "userEnd" \in hist[b] /\ "transportConnected" \in hist[b]

\* ---------------------------------------------------------------- C27
\* C27: the 1:1 reject path: when the user rejects while 'ringing', exactly
\* one call-rejected row is published to the caller, no media is acquired and
\* no link is created, and when rejectCall has run to its end the status is
\* 'ended'.
C27_RejectPath ==
    [][/\ \A u \in Coords :
            RejectCall(u) =>
                /\ bus' = Publish(bus, Signal(User(u), callerId[u], "call-rejected", FALSE))
                /\ stops' = stops /\ localStreamRef' = localStreamRef /\ pcs' = pcs
       /\ \A t \in Tasks :
            RejectDone(t) =>
                /\ callStatus'[t.u] = "ended"
                /\ bus' = bus /\ localStreamRef' = localStreamRef
                /\ Len(pcs'[t.u]) = Len(pcs[t.u]) /\ Len(stops'[t.u]) = Len(stops[t.u])]_vars

\* ---------------------------------------------------------------- C28
\* endCall of coordinator u runs in this step: the end button, a received
\* call-ended, or a failed transport
EndCallRuns(u) ==
    \/ EndCallClick(u)
    \/ \E m \in Signals : m.to = User(u) /\ Shown(m.to) # {} /\ At(m.to) = u /\ RecvCallEnded(m)
    \/ \E i \in 1..Len(pcs[u]) : TransportFailed(u, i)

\* C28: every run of the 1:1 endCall sets the status to 'ended'; it publishes
\* call-ended to the remote participant when the session knows one (startCall
\* or acceptCall has set it), and publishes nothing when it knows none.
C28_EndCallPublishes ==
    [][\A u \in Coords :
          EndCallRuns(u) /\ Mounted(u) =>
              LET row == Signal(User(u), remoteUserId[u], "call-ended", FALSE)
              IN /\ callStatus'[u] = "ended"
                 /\ IF remoteUserId[u] # NoUser
                    THEN CopiesIn(row, bus') = CopiesIn(row, bus) + 1
                    ELSE \A m \in BagToSet(bus') : CopiesIn(m, bus') <= CopiesIn(m, bus)]_vars

\* ---------------------------------------------------------------- C29
\* case 'answer' or 'ice-candidate' runs on a row from member p
AnswerOrIceFrom(u, p) == GRecvAnswer(u, p) \/ GRecvIceCandidate(u, p)

\* C29: in a group call an answer or ice-candidate from a participant for
\* whom the map holds no link is dropped: status, the participant-link map
\* and local media stay as they are, no link is created, nothing is published
\* and no continuation is started.
C29_UnknownSenderDropped ==
    [][\A p \in Remotes :
          AnswerOrIceFrom(G, p) /\ ~MapHas(peerConnectionsRef[G], p) =>
              UNCHANGED <<callStatus, peerConnectionsRef, participants, localStreamRef,
                          stops, tracks, isVideoEnabled, isAudioEnabled, pcs, bus, tasks,
                          chatLog, hideTimers, callStartTimeRef>>]_vars

\* an answer from a member without a link was dropped while a link to another
\* member was waiting for its answer
C29_Witness ==
    /\ mode = "group" /\ show[G]
    /\ "answerDropped" \in hist[G]
    /\ \E k \in 1..Len(peerConnectionsRef[G]) :
           pcs[G][peerConnectionsRef[G][k].pc].sig = "have-local-offer"

\* ---------------------------------------------------------------- C30
\* the entries of map M for members other than p
OtherEntries(M, p) == {[id |-> M[k].id, pc |-> M[k].pc] : k \in {j \in 1..Len(M) : M[j].id # p}}

EntryPc(M, id) == M[CHOOSE k \in 1..Len(M) : M[k].id = id].pc

RequestsOf(u) == {m \in BagToSet(bus) : m.from = User(u) /\ m.type = "call-request" /\ m.grp}

\* C31: group startCall acquires local media once per session and then
\* publishes one call-request to each other member (none to the local user,
\* none twice); the stream it acquired is the one attached to every link
\* created later in the session.
C31_StartOnceSharedMedia ==
    (IsGroup /\ ~isIncoming[G]) =>
        /\ Len(stops[G]) <= sessions[G]
        /\ \A m \in RequestsOf(G) :
               m.to # User(G) /\ CopiesIn(m, bus) = 1 /\ Len(stops[G]) = 1
        /\ RequestsOf(G) # {} => {m.to : m \in RequestsOf(G)} = Remotes
        /\ \A i \in 1..Len(pcs[G]) : pcs[G][i].stream = 1

\* the caller has rung every member and holds links to two of them, both
\* carrying the stream startGroupCall acquired
C31_Witness ==
    /\ mode = "party" /\ ~isIncoming[G] /\ show[G]
    /\ Len(stops[G]) = 1 /\ localStreamRef[G] = 1
    /\ {m.to : m \in RequestsOf(G)} = Remotes
    /\ Len(peerConnectionsRef[G]) >= 2
    /\ \A k \in 1..Len(peerConnectionsRef[G]) : pcs[G][peerConnectionsRef[G][k].pc].stream = 1

\* ---------------------------------------------------------------- C32
\* the step in which the insert of the 1:1 call-request fails
RequestInsertFails(t) == StartMediaDoneIns(t, TRUE, FALSE)

\* C32: when the insert of a call-request fails, the coordinator neither
\* retries nor rolls back: status, the acquired stream and the links are what
\* they are after a successful insert, no continuation is left that would
\* write the row again and no copy of it is published; a caller whose
\* call-request was lost stays in 'calling' until the local user ends the call
\* (the notes of a coordinator are kept over its sessions, so the second part
\* is stated for its first session).
C32_LostPublish ==
    /\ [][/\ \A t \in Tasks :
               RequestInsertFails(t) =>
                   /\ bus' = bus /\ tasks' = tasks (-) One(t)
                   /\ callStatus' = callStatus /\ pcs' = pcs
                   /\ localStreamRef'[t.u] = Len(stops[t.u]) + 1
                   /\ stops'[t.u] = Append(stops[t.u], 0)
          /\ \A t \in Tasks, sent \in SUBSET Remotes :
               GStartMembersDoneIns(t, sent) =>
                   /\ \A m \in Remotes :
                          LET row == Signal(User(t.u), m, "call-request", TRUE)
                          IN CopiesIn(row, bus') =
                                 CopiesIn(row, bus) + (IF m \in sent THEN 1 ELSE 0)
                   /\ tasks' = tasks (-) One(t)
                   /\ UNCHANGED <<callStatus, pcs, peerConnectionsRef, localStreamRef, stops>>]_vars
    /\ [](\A u \in Coords :
             ("requestLost" \in hist[u] /\ sessions[u] = 1) =>
                 /\ \A m \in BagToSet(bus) : ~(m.from = User(u) /\ m.type = "call-request")
                 /\ "userEnd" \notin hist[u] => callStatus[u] = "calling")

\* the call-request of a caller was lost: the caller is still in 'calling'
\* with its stream live and nothing left to run
C32_Witness ==
    \E u \in Coords :
        /\ "requestLost" \in hist[u] /\ "userEnd" \notin hist[u] /\ sessions[u] = 1
        /\ callStatus[u] = "calling" /\ show[u]
        /\ localStreamRef[u] \in Live(u)
        /\ tasks = EmptyBag /\ bus = EmptyBag

\* ---------------------------------------------------------------- C33
\* the step that opens the session of coordinator u
SessionOpens(u) ==
    \/ OpenCall(u)
    \/ GOpen(u)
    \/ \E m \in Signals : RecvCallRequest(m) /\ ~show[u] /\ show'[u]

\* C33: on session open an outgoing caller goes from 'idle' to 'calling'
\* without a further user action (the group caller in the opening step, the
\* 1:1 caller as soon as its lookup has found the other user), and an
\* addressed recipient is 'ringing' from the opening step on and leaves
\* 'ringing' only by accepting (or by the session ending) - in both
\* coordinators.
C33_OpenStatus ==
    [][\A u \in Coords :
          /\ (SessionOpens(u) /\ isIncoming[u]) => callStatus'[u] = "ringing"
          /\ (GOpen(u) /\ ~isIncoming[u] /\ callStatus[u] = "idle") =>
                 callStatus'[u] = "calling"
          /\ (OpenCall(u) /\ callStatus[u] = "idle") =>
                 \E t \in BagToSet(tasks') : t.u = u /\ t.kind = "startLookup"
          /\ \A t \in Tasks, r \in {"A", "B"} :
                 (t.u = u /\ StartLookupDone(t, r) /\ Mounted(u)) => callStatus'[u] = "calling"
          /\ (callStatus[u] = "ringing" /\ callStatus'[u] # "ringing") =>
                 \/ (AcceptCall(u) \/ GAcceptCall(u)) /\ callStatus'[u] = "connected"
                 \/ callStatus'[u] = "ended"]_vars

\* ---------------------------------------------------------------- C34
\* rows of the call set-up that the step adds to the table in the name of u
SetupRowsBy(u) ==
    {m \in BagToSet(bus') :
        /\ m.from = User(u) /\ CopiesIn(m, bus') > CopiesIn(m, bus)
        /\ m.type \in {"call-request", "call-accepted", "offer", "answer"}}

\* C34: once the status of a coordinator is 'ended' after a local endCall, it
\* publishes no further call-request, call-accepted, offer or answer and
\* creates no new link, whatever was suspended when endCall ran and whatever
\* arrives before the UI closes.
C34_QuietAfterEnd ==
    [][\A u \in Coords :
          ("userEnd" \in hist[u] /\ callStatus[u] = "ended") =>
              SetupRowsBy(u) = {} /\ Len(pcs'[u]) = Len(pcs[u])]_vars

\* ---------------------------------------------------------------- C35
\* links of u that the step takes out of the place they were held in (the
\* map entry of a member, or peerConnectionRef) by putting another one there
ReplacedLinks(u) ==
    {peerConnectionsRef[u][k].pc : k \in {j \in 1..Len(peerConnectionsRef[u]) :
         /\ MapHas(peerConnectionsRef'[u], peerConnectionsRef[u][j].id)
         /\ MapGet(peerConnectionsRef'[u], peerConnectionsRef[u][j].id)
                # peerConnectionsRef[u][j].pc}}
    \cup (IF peerConnectionRef[u] # 0 /\ peerConnectionRef'[u] \notin {0, peerConnectionRef[u]}
          THEN {peerConnectionRef[u]} ELSE {})

\* C35: every link a coordinator creates is closed by it: a link that is
\* replaced in the place it is held in is closed in that step, and when the
\* session is over (UI closed, nothing left to run) no link is open.
C35_LinksClosed ==
    /\ [][\A u \in Coords : \A i \in ReplacedLinks(u) : ~pcs'[u][i].open]_vars
    /\ [](\A u \in Coords :
             (Closed(u) /\ tasks = EmptyBag /\ hideTimers[u] = 0) => OpenLinks(u) = {})

\* ---------------------------------------------------------------- C36
\* C36: a coordinator publishes at most one call-ended per session and remote
\* participant, however often endCall is triggered (every coordinator has one
\* session in these runs, so two equal call-ended rows in the table are two
\* rows of one session).
C36_OneCallEnded ==
    \A m \in BagToSet(bus) : m.type = "call-ended" => CopiesIn(m, bus) <= 1

\* ---------------------------------------------------------------- C37
\* C37: in a group call a call-ended from a participant for whom the map
\* holds no link does not end the session: status, local media, the map and
\* the links to the other participants are unchanged, and nothing is
\* published.
C37_StrangerLeaves ==
    [][\A p \in Remotes :
          (GRecvCallEnded(G, p) /\ ~MapHas(peerConnectionsRef[G], p)) =>
              UNCHANGED <<callStatus, localStreamRef, stops, tracks, pcs,
                          peerConnectionsRef, bus, hideTimers>>]_vars

\* ---------------------------------------------------------------- C38
\* every member the caller rang has rejected
AllRejected == \A m \in Remotes : RejectNote(m) \in hist[G]

\* C38: in a group call a received call-rejected changes neither the status
\* nor the participant-link map nor local media and publishes nothing; when
\* every rung member has rejected, the caller stays in 'calling' until the
\* local user ends the call.
C38_RejectedIgnored ==
    /\ [][\A p \in Remotes :
             GRecvUnhandled(G, p, "call-rejected") =>
                 UNCHANGED <<callStatus, peerConnectionsRef, participants, pcs,
                             localStreamRef, stops, tracks, bus, tasks, hideTimers>>]_vars
    /\ []((AllRejected /\ "userEnd" \notin hist[G]) => callStatus[G] = "calling")

\* all three members have rejected and the caller is still calling, with its
\* stream live and no link
C38_Witness ==
    /\ mode = "party" /\ AllRejected /\ "userEnd" \notin hist[G]
    /\ callStatus[G] = "calling" /\ show[G]
    /\ localStreamRef[G] \in Live(G) /\ pcs[G] = <<>>

\* ---------------------------------------------------------------- C39
\* C39: while a user has an active incoming 1:1 session with caller X
\* (ringing or connected), a call-request from another sender or of another
\* conversation changes neither the caller identity of that session nor its
\* status nor its link.
C39_SessionKeepsCaller ==
    [][\A m \in Signals : \A b \in Instances(m.to) :
          ( /\ RecvCallRequest(m)
            /\ show[b] /\ isIncoming[b] /\ callStatus[b] \in {"ringing", "connected"}
            /\ (m.from # callerId[b] \/ m.conv # Conv) ) =>
              /\ callerId'[b] = callerId[b]
              /\ callStatus'[b] = callStatus[b]
              /\ peerConnectionRef'[b] = peerConnectionRef[b]
              /\ pcs'[b] = pcs[b]]_vars

====
